---- MODULE Spec2Model ----
(***************************************************************************)
(* The dynamic form submission engine of the tax-organizer backend          *)
(* (form_app): the field type classifier, the typed answer store, the two  *)
(* section materializers and the request handlers of                       *)
(* TaxFormSubmissionViewSet, over the relational tables of models.py.      *)
(*                                                                         *)
(* Text is modelled as a sequence of fragments (short strings): a question *)
(* key "firstName" is <<"first", "Name">>, the digits "42" are             *)
(* <<"4", "2">>.  str.lower(), substring tests and isdigit() are computed  *)
(* on the fragments.                                                       *)
(***************************************************************************)
EXTENDS Integers, Sequences, FiniteSets, TLC

VARIABLES
    formTypes,       \* FormType rows: the names
    formSections,    \* FormSection rows: [form_type, section_key, title, order]
    formQuestions,   \* FormQuestion rows: [form_type, section_key, question_key, question_text, field_type, is_sensitive]
    submissions,     \* TaxFormSubmission rows, by id: [exists, form_type, user, status, processing_notes]
    sectionData,     \* FormSectionData rows, in primary-key order: [submission, section_key, data]
    answers,         \* FormAnswer rows, in primary-key order
    dependents,      \* DependentInfo rows, in primary-key order
    businessOwners,  \* BusinessOwnerInfo rows
    vehicles,        \* VehicleInfo rows
    contributions,   \* CharitableContribution rows
    auditLog,        \* FormAuditLog rows, in primary-key order
    nextLogId,       \* the next primary key of FormAuditLog
    crmUp,           \* the CRM answers the calls made to it
    crmCalls,        \* the calls the request handled last made to the CRM: [user, tag, delivered]
    last,            \* the request handled last and its response
    txns,            \* the full-replace transactions in flight, by connection
    surveys,         \* SurveySubmission rows, by id: [exists, user, form_type, status, data_status]
    column,          \* one value on its way through an EncryptedField column: [step, given, stored, exc, read]
    profiles         \* User and UserProfile rows, by user: [exists, is_admin, is_super_admin, can_list_users, is_staff]

vars == <<formTypes, formSections, formQuestions, submissions, sectionData, answers,
          dependents, businessOwners, vehicles, contributions, auditLog,
          nextLogId, crmUp, crmCalls, last, txns, surveys, profiles, column>>

\* the rows outside the form tables and the transactions in flight
beyond == <<txns, surveys, profiles, column>>

----------------------------------------------------------------------------
(* Bounds of the model *)

\* submissions that are ever created
MaxSubmissions == 2
\* FormAuditLog primary keys handed out (every committed request takes one)
MaxLogId == 2
\* the same where only the status of a submission is changed
MaxNotifyLogId == 3

----------------------------------------------------------------------------
(* Text *)

\* str.lower() on one fragment
LowerFrag(f) ==
    CASE f = "Name" -> "name"
      [] f = "Yes" -> "yes"
      [] f = "True" -> "true"
      [] f = "False" -> "false"
      [] f = "None" -> "none"
      [] f = "Jane" -> "jane"
      [] f = "Bob" -> "bob"
      [] f = "Date" -> "date"
      [] f = "SSN" -> "ssn"
      [] f = "Spouse" -> "spouse"
      [] f = "Info" -> "info"
      [] f = "Expenses" -> "expenses"
      [] f = "Organizations" -> "organizations"
      [] f = "Signature" -> "signature"
      [] f = "Of" -> "of"
      [] f = "Birth" -> "birth"
      [] f = "Miles" -> "miles"
      [] OTHER -> f

\* str.lower()
Lower(s) == [i \in 1..Len(s) |-> LowerFrag(s[i])]

\* `needle in haystack` for str
Contains(haystack, needle) ==
    \E i \in 0..(Len(haystack) - Len(needle)) :
        SubSeq(haystack, i + 1, i + Len(needle)) = needle

Digits == {"0", "1", "2", "3", "4", "5", "6", "7", "8", "9"}

\* str.isdigit(): non-empty and all digits
IsDigit(s) == Len(s) > 0 /\ \A i \in 1..Len(s) : s[i] \in Digits

\* str.replace('.', '')
RemoveDots(s) == SelectSeq(s, LAMBDA f : f # ".")

\* str.capitalize() on one fragment of a lower-cased word
CapFrag(f) ==
    CASE f = "first" -> "First"
      [] f = "has" -> "Has"
      [] f = "ssn" -> "Ssn"
      [] f = "dependents" -> "Dependents"
      [] f = "owners" -> "Owners"
      [] f = "owner" -> "Owner"
      [] f = "vehicles" -> "Vehicles"
      [] f = "charitable" -> "Charitable"
      [] f = "basic" -> "Basic"
      [] f = "income" -> "Income"
      [] f = "deductions" -> "Deductions"
      [] f = "age" -> "Age"
      [] f = "signature" -> "Signature"
      [] OTHER -> f

\* str.title() of a key without separators: one word, first letter upper, rest lower
Title(s) == IF Len(s) = 0 THEN s
            ELSE <<CapFrag(LowerFrag(s[1]))>> \o Lower(SubSeq(s, 2, Len(s)))

----------------------------------------------------------------------------
(* Python values of a payload.  t is the Python type, s the text of a str  *)
(* (or the digits of a number), l the items of a list.  A str that is the   *)
(* JSON text of an array carries the array in l.                           *)

NoItems == <<>>
PyNone == [t |-> "none", s |-> <<>>, l |-> NoItems]
Str(s) == [t |-> "str", s |-> s, l |-> NoItems]
PyInt(s) == [t |-> "int", s |-> s, l |-> NoItems]
PyFloat(s) == [t |-> "float", s |-> s, l |-> NoItems]
PyBool(b) == [t |-> "bool", s |-> IF b THEN <<"True">> ELSE <<"False">>, l |-> NoItems]
PyList(l) == [t |-> "list", s |-> <<>>, l |-> l]
PyDict == [t |-> "dict", s |-> <<>>, l |-> NoItems]
PyDateTime(s) == [t |-> "datetime", s |-> s, l |-> NoItems]

\* the text json.dumps writes for an array
JsonArrayText == <<"[json]">>

\* json.dumps(list)
JsonDumps(l) == [t |-> "str", s |-> JsonArrayText, l |-> l]

\* a str that json.loads rejects
BadJsonText == <<"[bad">>

\* str(value)
PyStr(v) ==
    CASE v.t = "str" -> v.s
      [] v.t = "int" -> v.s
      [] v.t = "float" -> v.s
      [] v.t = "bool" -> v.s
      [] v.t = "none" -> <<"None">>
      [] v.t = "list" -> <<"[list]">>
      [] v.t = "dict" -> <<"{dict}">>
      [] OTHER -> v.s

\* bool(value)
Truthy(v) ==
    CASE v.t = "none" -> FALSE
      [] v.t = "str" -> Len(v.s) > 0
      [] v.t \in {"int", "float"} -> \E i \in 1..Len(v.s) : v.s[i] \in (Digits \ {"0"})
      [] v.t = "bool" -> v.s = <<"True">>
      [] v.t = "list" -> Len(v.l) > 0
      [] OTHER -> TRUE

\* the number of '.' in a text
DotCount(s) == Len(SelectSeq(s, LAMBDA f : f = "."))

\* float(value): [exc, val]
ToFloat(v) ==
    CASE v.t = "str" ->
            IF IsDigit(RemoveDots(v.s)) /\ DotCount(v.s) <= 1
            THEN [exc |-> "none",
                  val |-> PyFloat(IF DotCount(v.s) = 0 THEN v.s \o <<".", "0">> ELSE v.s)]
            ELSE [exc |-> "ValueError", val |-> PyNone]
      [] v.t = "int" -> [exc |-> "none", val |-> PyFloat(v.s \o <<".", "0">>)]
      [] v.t = "float" -> [exc |-> "none", val |-> v]
      [] v.t = "bool" ->
            [exc |-> "none",
             val |-> PyFloat(IF v.s = <<"True">> THEN <<"1", ".", "0">> ELSE <<"0", ".", "0">>)]
      [] OTHER -> [exc |-> "TypeError", val |-> PyNone]

\* json.loads(str): [exc, val]
JsonLoads(v) ==
    IF v.s = JsonArrayText THEN [exc |-> "none", val |-> PyList(v.l)]
    ELSE IF IsDigit(v.s) THEN [exc |-> "none", val |-> PyInt(v.s)]
    ELSE IF v.s = <<"true">> THEN [exc |-> "none", val |-> PyBool(TRUE)]
    ELSE IF v.s = <<"false">> THEN [exc |-> "none", val |-> PyBool(FALSE)]
    ELSE IF v.s = <<"null">> THEN [exc |-> "none", val |-> PyNone]
    ELSE [exc |-> "JSONDecodeError", val |-> PyNone]

\* a text django.utils.dateparse.parse_datetime accepts
DateTimeText == <<"2024-01-01T00:00:00Z">>

\* parse_datetime(value) or parse_date(value)
ParseDate(s) == IF s = DateTimeText THEN PyDateTime(s) ELSE PyNone

----------------------------------------------------------------------------
(* Encryption Boundary: EncryptedField *)

\* settings.ENCRYPTION_KEY, and a key that earlier rows were written under
ENCRYPTION_KEY == "key-2"
RetiredKey == "key-1"

\* Fernet(key).encrypt(text): a token that holds the text under the key, signed
FernetEncrypt(key, text) ==
    [t |-> "cipher", s |-> text, l |-> NoItems, key |-> key, intact |-> TRUE]

\* Fernet(key).decrypt(token): the text of a token that is signed under this key;
\* InvalidToken for anything else
FernetDecrypt(key, v) ==
    IF v.t = "cipher" /\ v.key = key /\ v.intact THEN [exc |-> "none", val |-> Str(v.s)]
    ELSE [exc |-> "InvalidToken", val |-> PyNone]

\* a variant of the try block whose exception escapes
Try_Raising(attempt, fallback) == attempt

\* try: return ...  except: return fallback
Try(attempt, fallback) ==
    IF attempt.exc # "none" THEN [exc |-> "none", val |-> fallback] ELSE attempt

\* EncryptedField.get_prep_value: None stays None, text becomes ciphertext
GetPrepValue(v) ==
    IF v.t = "none" THEN v ELSE FernetEncrypt(ENCRYPTION_KEY, v.s)

\* EncryptedField.from_db_value, as [exc, val]
FromDb(v) ==
    IF v.t = "none" THEN [exc |-> "none", val |-> v]
    ELSE Try(FernetDecrypt(ENCRYPTION_KEY, v), v)

\* EncryptedField.from_db_value: ciphertext is decrypted, anything else is returned as it is
FromDbValue(v) == FromDb(v).val

\* decrypt_value of views.py: None has no encode()
DecryptValue(v) ==
    Try(IF v.t = "none" THEN [exc |-> "AttributeError", val |-> PyNone]
        ELSE FernetDecrypt(ENCRYPTION_KEY, v), v)

----------------------------------------------------------------------------
(* Field Type Classifier *)

sensitive_fields == {<<"ssn">>, <<"spouse", "ssn">>, <<"ein">>}
signature_fields == {<<"taxpayer", "signature">>, <<"spouse", "signature">>, <<"signature">>}
boolean_fields == {<<"has", "Spouse">>, <<"taxpayer", "Blind">>, <<"is", "Full", "Time", "Student">>,
                   <<"first", "Year">>, <<"has", "Home", "Office">>}
date_fields == {<<"date", "Of", "Birth">>, <<"submission", "Date">>, <<"start", "Date">>,
                <<"date", "Placed", "In", "Service">>, <<"spouse", "Death", "Date">>}
number_fields == {<<"months", "Lived", "With", "You">>, <<"child", "Care", "Expense">>,
                  <<"ownership", "Percentage">>, <<"gross", "Receipts">>, <<"total", "Miles">>}
json_fields == {<<"dependents">>, <<"owners">>, <<"vehicles">>, <<"charitable", "Organizations">>,
                <<"other", "Expenses">>, <<"business", "Descriptions">>, <<"entity", "Types">>}

\* a variant that looks at the date rule before the signature rule
DetermineFieldType_DateFirst(question_key, answer) ==
    IF \E field \in sensitive_fields : Contains(Lower(question_key), field) THEN "encrypted"
    ELSE IF question_key \in date_fields \/ Contains(Lower(question_key), <<"date">>) THEN "date"
    ELSE IF \E field \in signature_fields : Contains(Lower(question_key), field) THEN "signature"
    ELSE IF question_key \in boolean_fields
            \/ Lower(PyStr(answer)) \in {<<"yes">>, <<"no">>, <<"true">>, <<"false">>} THEN "boolean"
    ELSE IF question_key \in number_fields
            \/ answer.t \in {"int", "float", "bool"}
            \/ IsDigit(RemoveDots(PyStr(answer))) THEN "number"
    ELSE IF question_key \in json_fields \/ answer.t \in {"list", "dict"} THEN "json"
    ELSE "text"

\* _determine_field_type
DetermineFieldType(question_key, answer) ==
    IF \E field \in sensitive_fields : Contains(Lower(question_key), field) THEN "encrypted"
    ELSE IF \E field \in signature_fields : Contains(Lower(question_key), field) THEN "signature"
    ELSE IF question_key \in boolean_fields
            \/ Lower(PyStr(answer)) \in {<<"yes">>, <<"no">>, <<"true">>, <<"false">>} THEN "boolean"
    ELSE IF question_key \in date_fields \/ Contains(Lower(question_key), <<"date">>) THEN "date"
    ELSE IF question_key \in number_fields
            \/ answer.t \in {"int", "float", "bool"}
            \/ IsDigit(RemoveDots(PyStr(answer))) THEN "number"
    ELSE IF question_key \in json_fields \/ answer.t \in {"list", "dict"} THEN "json"
    ELSE "text"

sensitive_keywords == {<<"ssn">>, <<"spouse", "ssn">>, <<"ein">>, <<"signature">>}

\* _is_sensitive_field
IsSensitiveField(question_key) ==
    \E keyword \in sensitive_keywords : Contains(Lower(question_key), keyword)

----------------------------------------------------------------------------
(* Answer Value Store: FormAnswer *)

\* the six typed slots, all cleared
ClearedSlots ==
    [text_value |-> PyNone, number_value |-> PyNone, boolean_value |-> PyNone,
     date_value |-> PyNone, json_value |-> PyNone, encrypted_value |-> PyNone]

\* a variant that does not route by the field type: every value lands in the text slot
SetValue_Text(field_type, value) ==
    [exc |-> "none", slots |-> [ClearedSlots EXCEPT !.text_value = Str(PyStr(value))]]

\* FormAnswer.set_value followed by FormAnswer.save: [exc, slots], the slots as stored
SetValue(field_type, value) ==
    IF value.t = "none" \/ (value.t = "str" /\ value.s = <<>>)
    THEN [exc |-> "none", slots |-> ClearedSlots]
    ELSE CASE field_type = "encrypted" ->
                [exc |-> "none",
                 slots |-> [ClearedSlots EXCEPT !.encrypted_value = GetPrepValue(Str(PyStr(value)))]]
           [] field_type = "number" ->
                IF ~Truthy(value) THEN [exc |-> "none", slots |-> ClearedSlots]
                ELSE [exc |-> ToFloat(value).exc,
                      slots |-> [ClearedSlots EXCEPT !.number_value = ToFloat(value).val]]
           [] field_type = "boolean" ->
                [exc |-> "none",
                 slots |-> [ClearedSlots EXCEPT !.boolean_value =
                               IF value.t = "str"
                               THEN PyBool(Lower(value.s) \in {<<"true">>, <<"yes">>, <<"1">>})
                               ELSE PyBool(Truthy(value))]]
           [] field_type = "date" ->
                IF value.t = "str"
                THEN [exc |-> "none", slots |-> [ClearedSlots EXCEPT !.date_value = ParseDate(value.s)]]
                ELSE IF value.t = "datetime"
                THEN [exc |-> "none", slots |-> [ClearedSlots EXCEPT !.date_value = value]]
                ELSE [exc |-> "TypeError", slots |-> ClearedSlots]
           [] field_type = "json" ->
                [exc |-> "none",
                 slots |-> [ClearedSlots EXCEPT !.json_value =
                               IF value.t = "str" /\ JsonLoads(value).exc = "none"
                               THEN JsonLoads(value).val ELSE value]]
           [] OTHER ->
                [exc |-> "none", slots |-> [ClearedSlots EXCEPT !.text_value = Str(PyStr(value))]]

\* FormAnswer.get_value on a row read back from the database
GetValue(field_type, row) ==
    CASE field_type = "encrypted" -> FromDbValue(row.encrypted_value)
      [] field_type = "number" -> row.number_value
      [] field_type = "boolean" -> row.boolean_value
      [] field_type = "date" -> row.date_value
      [] field_type = "json" -> row.json_value
      [] OTHER -> row.text_value

----------------------------------------------------------------------------
(* Payloads.  A JSON object is a sequence of <<key, entry>> pairs with     *)
(* distinct keys, in the order the object lists them.  An entry of         *)
(* questionsAndAnswers is either a mapping (isDict) that may hold          *)
(* "question" and "answer", or a bare value.  A list item of a structured  *)
(* sub-payload is [isDict, name, date]: name is its identifying field      *)
(* (firstName, description, name; empty when missing) and date tells       *)
(* whether its date field (dateOfBirth, datePlacedInService) is given.     *)

NoText == <<>>
Wrapped(question, answer) ==
    [isDict |-> TRUE, hasQuestion |-> TRUE, hasAnswer |-> TRUE, question |-> question, answer |-> answer]
AnswerOnly(answer) ==
    [isDict |-> TRUE, hasQuestion |-> FALSE, hasAnswer |-> TRUE, question |-> NoText, answer |-> answer]
Bare(value) ==
    [isDict |-> FALSE, hasQuestion |-> FALSE, hasAnswer |-> FALSE, question |-> NoText, answer |-> value]

\* the entry itself, read as a value
EntryValue(e) == IF e.isDict THEN PyDict ELSE e.answer

EmptyMap == <<>>
MapKeys(m) == {m[i][1] : i \in 1..Len(m)}
MapHas(m, k) == k \in MapKeys(m)
MapGet(m, k) == m[CHOOSE i \in 1..Len(m) : m[i][1] = k][2]
MapPut(m, k, e) ==
    IF MapHas(m, k) THEN [i \in 1..Len(m) |-> IF m[i][1] = k THEN <<k, e>> ELSE m[i]]
    ELSE Append(m, <<k, e>>)

\* the JSON blob of a FormSectionData row: its top-level entries, and the entries
\* under its top-level key 'questionsAndAnswers' when it has that key
Blob(top) == [top |-> top, hasNested |-> FALSE, nested |-> EmptyMap]

----------------------------------------------------------------------------
(* The tables inside one transaction.  exc is the exception that has       *)
(* escaped so far ("none" while the handler is still running).             *)

Tables ==
    [formTypes |-> formTypes, formSections |-> formSections, formQuestions |-> formQuestions,
     submissions |-> submissions, sectionData |-> sectionData, answers |-> answers,
     dependents |-> dependents, businessOwners |-> businessOwners,
     vehicles |-> vehicles, contributions |-> contributions,
     auditLog |-> auditLog, nextLogId |-> nextLogId, crmCalls |-> <<>>, exc |-> "none"]

Raise(T, e) == [T EXCEPT !.exc = e]

\* rows.filter(submission=...).delete()
DeleteOf(rows, submission) == SelectSeq(rows, LAMBDA r : r.submission # submission)

\* the rows of a submission
RowsOf(rows, submission) == SelectSeq(rows, LAMBDA r : r.submission = submission)

\* FormSectionData.Meta.unique_together: may a row for (submission, section) be inserted
SectionDataUnique(rows, submission, section_key) ==
    ~\E i \in 1..Len(rows) : rows[i].submission = submission /\ rows[i].section_key = section_key

\* FormAnswer.Meta.unique_together: may a row for (submission, question) be inserted
AnswerUnique(rows, submission, section_key, question_key) ==
    ~\E i \in 1..Len(rows) : /\ rows[i].submission = submission
                             /\ rows[i].section_key = section_key
                             /\ rows[i].question_key = question_key

\* FormSection.objects.get(form_type=..., section_key=...) finds a row
SectionExists(T, form_type, section_key) ==
    \E r \in T.formSections : r.form_type = form_type /\ r.section_key = section_key

\* FormSection.objects.get_or_create(form_type, section_key, defaults={'title': ...})
SectionGetOrCreate(T, form_type, section_key, title) ==
    IF SectionExists(T, form_type, section_key) THEN T
    ELSE [T EXCEPT !.formSections = @ \cup
            {[form_type |-> form_type, section_key |-> section_key, title |-> title, order |-> 0]}]

\* FormQuestion.objects.get(section=..., question_key=...) finds a row
QuestionExists(T, form_type, section_key, question_key) ==
    \E q \in T.formQuestions :
        q.form_type = form_type /\ q.section_key = section_key /\ q.question_key = question_key

\* the FormQuestion row of (section, question_key)
QuestionOf(T, form_type, section_key, question_key) ==
    CHOOSE q \in T.formQuestions :
        q.form_type = form_type /\ q.section_key = section_key /\ q.question_key = question_key

\* a variant that re-infers: FormQuestion.objects.update_or_create(section, question_key,
\* defaults={...})
QuestionUpdateOrCreate(T, form_type, section_key, question_key, question_text, field_type, is_sensitive) ==
    [T EXCEPT !.formQuestions =
        {q \in @ : ~(/\ q.form_type = form_type
                     /\ q.section_key = section_key
                     /\ q.question_key = question_key)}
        \cup {[form_type |-> form_type, section_key |-> section_key, question_key |-> question_key,
               question_text |-> question_text, field_type |-> field_type,
               is_sensitive |-> is_sensitive]}]

\* FormQuestion.objects.get_or_create(section, question_key, defaults={...})
QuestionGetOrCreate(T, form_type, section_key, question_key, question_text, field_type, is_sensitive) ==
    IF QuestionExists(T, form_type, section_key, question_key) THEN T
    ELSE [T EXCEPT !.formQuestions = @ \cup
            {[form_type |-> form_type, section_key |-> section_key, question_key |-> question_key,
              question_text |-> question_text, field_type |-> field_type,
              is_sensitive |-> is_sensitive]}]

\* a FormAnswer row as get_or_create inserts it
NewAnswer(submission, section_key, question_key) ==
    [submission |-> submission, section_key |-> section_key, question_key |-> question_key,
     slots |-> ClearedSlots]

\* a variant that never finds the row: FormAnswer.objects.create in place of get_or_create,
\* on a table without the unique constraint
AnswerIndex_None(rows, submission, section_key, question_key) == 0

\* the index of the FormAnswer row of (submission, question), 0 when there is none
AnswerIndex(rows, submission, section_key, question_key) ==
    IF AnswerUnique(rows, submission, section_key, question_key) THEN 0
    ELSE CHOOSE i \in 1..Len(rows) :
            /\ rows[i].submission = submission
            /\ rows[i].section_key = section_key
            /\ rows[i].question_key = question_key
            /\ \A j \in 1..(i - 1) : ~(/\ rows[j].submission = submission
                                       /\ rows[j].section_key = section_key
                                       /\ rows[j].question_key = question_key)

\* a variant that rewrites the table: the row it saves is the only one left
AnswerUpsert_Replacing(T, submission, section_key, question_key, field_type, answer) ==
    [T EXCEPT !.answers =
        <<[NewAnswer(submission, section_key, question_key)
              EXCEPT !.slots = SetValue(field_type, answer).slots]>>]

\* FormAnswer.objects.get_or_create(submission, question, question_key), then
\* form_answer.set_value(answer) and form_answer.save()
AnswerUpsert(T, submission, section_key, question_key, field_type, answer) ==
    LET i == AnswerIndex(T.answers, submission, section_key, question_key)
        rows == IF i = 0 THEN Append(T.answers, NewAnswer(submission, section_key, question_key))
                ELSE T.answers
        at == IF i = 0 THEN Len(rows) ELSE i
        set == SetValue(field_type, answer)
    IN  IF set.exc # "none" THEN Raise([T EXCEPT !.answers = rows], set.exc)
        ELSE [T EXCEPT !.answers = [rows EXCEPT ![at].slots = set.slots]]

\* a variant that never finds the row: a plain insert in place of get_or_create, on a
\* table without the unique constraint
SectionDataIndex_None(rows, submission, section_key) == 0

\* the index of the FormSectionData row of (submission, section), 0 when there is none
SectionDataIndex(rows, submission, section_key) ==
    IF SectionDataUnique(rows, submission, section_key) THEN 0
    ELSE CHOOSE i \in 1..Len(rows) :
            /\ rows[i].submission = submission
            /\ rows[i].section_key = section_key
            /\ \A j \in 1..(i - 1) : ~(/\ rows[j].submission = submission
                                       /\ rows[j].section_key = section_key)

\* FormSectionData.objects.create(submission, section, section_key, data)
SectionDataCreate(T, submission, section_key, data) ==
    IF ~SectionDataUnique(T.sectionData, submission, section_key) THEN Raise(T, "IntegrityError")
    ELSE [T EXCEPT !.sectionData =
            Append(@, [submission |-> submission, section_key |-> section_key, data |-> data])]

\* FormSectionData.objects.get_or_create(submission, section, section_key), then
\* row.data = data and row.save()
SectionDataUpsert(T, submission, section_key, data) ==
    LET i == SectionDataIndex(T.sectionData, submission, section_key)
    IN  IF i = 0
        THEN [T EXCEPT !.sectionData =
                Append(@, [submission |-> submission, section_key |-> section_key, data |-> data])]
        ELSE [T EXCEPT !.sectionData[i].data = data]

----------------------------------------------------------------------------
(* Section keys and question keys with a special meaning in the code *)

K_dependents == <<"dependents">>
K_ownerInfo == <<"owner", "Info">>
K_incomeExpenses == <<"income", "Expenses">>
K_deductions == <<"deductions">>
K_owners == <<"owners">>
K_vehicles == <<"vehicles">>
K_charitableOrganizations == <<"charitable", "Organizations">>

----------------------------------------------------------------------------
(* Structured sub-entities *)

\* one sub-entity row
EntityRow(submission, item) == [submission |-> submission, name |-> item.name]

\* the for loop of _process_dependents / _process_vehicles: every mapping (for vehicles:
\* with a description) becomes a row; a row without its date violates NOT NULL
RECURSIVE CreateDated(_, _, _, _)
CreateDated(rows, submission, items, needName) ==
    IF Len(items) = 0 THEN [exc |-> "none", rows |-> rows]
    ELSE LET item == Head(items)
         IN  IF ~item.isDict \/ (needName /\ item.name = NoText)
             THEN CreateDated(rows, submission, Tail(items), needName)
             ELSE IF ~item.date THEN [exc |-> "IntegrityError", rows |-> rows]
             ELSE CreateDated(Append(rows, EntityRow(submission, item)), submission,
                              Tail(items), needName)

\* the for loop of _process_business_owners / _process_charitable_contributions:
\* every mapping (when needName: with a first name) becomes a row
RECURSIVE CreatePlain(_, _, _, _)
CreatePlain(rows, submission, items, needName) ==
    IF Len(items) = 0 THEN [exc |-> "none", rows |-> rows]
    ELSE LET item == Head(items)
         IN  IF ~item.isDict \/ (needName /\ item.name = NoText)
             THEN CreatePlain(rows, submission, Tail(items), needName)
             ELSE CreatePlain(Append(rows, EntityRow(submission, item)), submission,
                              Tail(items), needName)

\* questions_data.get(key, {}).get('answer', '[]'), then json.loads when it is a str:
\* [exc, skip, list].  exc: the entry is no mapping; skip: the text is no JSON.
SubPayload(questions_data, key) ==
    LET entry == IF MapHas(questions_data, key) THEN MapGet(questions_data, key)
                 ELSE AnswerOnly(JsonDumps(NoItems))
        data == IF entry.hasAnswer THEN entry.answer ELSE JsonDumps(NoItems)
        loaded == IF data.t = "str" THEN JsonLoads(data) ELSE [exc |-> "none", val |-> data]
    IN  IF ~entry.isDict THEN [exc |-> "AttributeError", skip |-> FALSE, list |-> PyNone]
        ELSE IF loaded.exc # "none" THEN [exc |-> "none", skip |-> TRUE, list |-> PyNone]
        ELSE [exc |-> "none", skip |-> FALSE, list |-> loaded.val]

\* _process_dependents
ProcessDependents(T, submission, questions_data) ==
    LET sub == SubPayload(questions_data, K_dependents)
        made == CreateDated(T.dependents, submission, sub.list.l, FALSE)
    IN  IF sub.exc # "none" THEN Raise(T, sub.exc)
        ELSE IF sub.skip \/ sub.list.t # "list" THEN T
        ELSE IF made.exc # "none" THEN Raise([T EXCEPT !.dependents = made.rows], made.exc)
        ELSE [T EXCEPT !.dependents = made.rows]

\* _process_business_owners
ProcessBusinessOwners(T, submission, questions_data) ==
    LET sub == SubPayload(questions_data, K_owners)
        made == CreatePlain(T.businessOwners, submission, sub.list.l, FALSE)
    IN  IF sub.exc # "none" THEN Raise(T, sub.exc)
        ELSE IF sub.skip \/ sub.list.t # "list" THEN T
        ELSE [T EXCEPT !.businessOwners = made.rows]

\* _process_vehicles
ProcessVehicles(T, submission, questions_data) ==
    LET sub == SubPayload(questions_data, K_vehicles)
        made == CreateDated(T.vehicles, submission, sub.list.l, TRUE)
    IN  IF sub.exc # "none" THEN Raise(T, sub.exc)
        ELSE IF sub.skip \/ sub.list.t # "list" THEN T
        ELSE IF made.exc # "none" THEN Raise([T EXCEPT !.vehicles = made.rows], made.exc)
        ELSE [T EXCEPT !.vehicles = made.rows]

\* _process_charitable_contributions
ProcessCharitableContributions(T, submission, questions_data) ==
    LET sub == SubPayload(questions_data, K_charitableOrganizations)
        made == CreatePlain(T.contributions, submission, sub.list.l, FALSE)
    IN  IF sub.exc # "none" THEN Raise(T, sub.exc)
        ELSE IF sub.skip \/ sub.list.t # "list" THEN T
        ELSE [T EXCEPT !.contributions = made.rows]

\* a variant that reads a text that is no JSON as an empty list
SectionSubPayload_Emptying(entry) ==
    LET data == IF entry.isDict /\ entry.hasAnswer THEN entry.answer ELSE EntryValue(entry)
        loaded == IF data.t = "str" THEN JsonLoads(data) ELSE [exc |-> "none", val |-> data]
    IN  IF loaded.exc # "none" THEN [skip |-> FALSE, list |-> PyList(NoItems)]
        ELSE [skip |-> FALSE, list |-> loaded.val]

\* the head of _update_dependents_from_section / _update_business_owners_from_section:
\* unwrap 'answer', json.loads a str (any failure returns): [skip, list]
SectionSubPayload(entry) ==
    LET data == IF entry.isDict /\ entry.hasAnswer THEN entry.answer ELSE EntryValue(entry)
        loaded == IF data.t = "str" THEN JsonLoads(data) ELSE [exc |-> "none", val |-> data]
    IN  IF loaded.exc # "none" THEN [skip |-> TRUE, list |-> PyNone]
        ELSE [skip |-> FALSE, list |-> loaded.val]

\* a variant of _update_dependents_from_section that keeps the existing rows
UpdateDependentsFromSection_Merging(T, submission, dependents_data) ==
    LET sub == SectionSubPayload(dependents_data)
        made == CreateDated(T.dependents, submission, sub.list.l, TRUE)
    IN  IF sub.skip \/ sub.list.t # "list" THEN T
        ELSE IF made.exc # "none" THEN Raise([T EXCEPT !.dependents = made.rows], made.exc)
        ELSE [T EXCEPT !.dependents = made.rows]

\* _update_dependents_from_section
UpdateDependentsFromSection(T, submission, dependents_data) ==
    LET sub == SectionSubPayload(dependents_data)
        made == CreateDated(DeleteOf(T.dependents, submission), submission, sub.list.l, TRUE)
    IN  IF sub.skip \/ sub.list.t # "list" THEN T
        ELSE IF made.exc # "none" THEN Raise([T EXCEPT !.dependents = made.rows], made.exc)
        ELSE [T EXCEPT !.dependents = made.rows]

\* _update_business_owners_from_section
UpdateBusinessOwnersFromSection(T, submission, owners_data) ==
    LET sub == SectionSubPayload(owners_data)
        made == CreatePlain(DeleteOf(T.businessOwners, submission), submission, sub.list.l, TRUE)
    IN  IF sub.skip \/ sub.list.t # "list" THEN T
        ELSE [T EXCEPT !.businessOwners = made.rows]

----------------------------------------------------------------------------
(* Submission Materializer: the create / full replace path (serializers.py) *)

\* _process_question_answer
ProcessQuestionAnswer(T, submission, form_type, section_key, question_key, answer_value) ==
    LET unwrap == answer_value.isDict /\ answer_value.hasQuestion /\ answer_value.hasAnswer
        question_text == IF unwrap THEN answer_value.question ELSE Title(question_key)
        answer == IF unwrap THEN answer_value.answer ELSE EntryValue(answer_value)
        T1 == QuestionGetOrCreate(T, form_type, section_key, question_key, question_text,
                                  DetermineFieldType(question_key, answer),
                                  IsSensitiveField(question_key))
        question == QuestionOf(T1, form_type, section_key, question_key)
    IN  AnswerUpsert(T1, submission, section_key, question_key, question.field_type, answer)

\* for question_key, answer_value in questions_and_answers.items(): _process_question_answer
RECURSIVE ProcessQuestions(_, _, _, _, _)
ProcessQuestions(T, submission, form_type, section_key, questions_and_answers) ==
    IF T.exc # "none" \/ Len(questions_and_answers) = 0 THEN T
    ELSE ProcessQuestions(
            ProcessQuestionAnswer(T, submission, form_type, section_key,
                                  Head(questions_and_answers)[1], Head(questions_and_answers)[2]),
            submission, form_type, section_key, Tail(questions_and_answers))

\* the special cases at the end of _process_section
ProcessStructured(T, submission, section_key, questions_and_answers) ==
    IF T.exc # "none" THEN T
    ELSE IF section_key = K_dependents THEN ProcessDependents(T, submission, questions_and_answers)
    ELSE IF section_key = K_ownerInfo THEN ProcessBusinessOwners(T, submission, questions_and_answers)
    ELSE IF section_key = K_incomeExpenses THEN ProcessVehicles(T, submission, questions_and_answers)
    ELSE IF section_key = K_deductions
         THEN ProcessCharitableContributions(T, submission, questions_and_answers)
    ELSE T

\* section_data.get('sectionTitle', section_key.title())
SectionTitle(section_key, section_data) ==
    IF section_data.sectionTitle = NoText THEN Title(section_key) ELSE section_data.sectionTitle

\* _process_section
ProcessSection(T, submission, form_type, section_key, section_data) ==
    LET questions_and_answers == section_data.questionsAndAnswers
        T1 == SectionGetOrCreate(T, form_type, section_key, SectionTitle(section_key, section_data))
        T2 == SectionDataCreate(T1, submission, section_key, Blob(questions_and_answers))
        T3 == ProcessQuestions(T2, submission, form_type, section_key, questions_and_answers)
    IN  IF T.exc # "none" THEN T
        ELSE ProcessStructured(T3, submission, section_key, questions_and_answers)

\* for section_key, section_data in sections_data.items(): _process_section
RECURSIVE ProcessSections(_, _, _, _)
ProcessSections(T, submission, form_type, sections_data) ==
    IF T.exc # "none" \/ Len(sections_data) = 0 THEN T
    ELSE ProcessSections(
            ProcessSection(T, submission, form_type, Head(sections_data)[1], Head(sections_data)[2]),
            submission, form_type, Tail(sections_data))

----------------------------------------------------------------------------
(* Submission Materializer: the partial update path (views.py) *)

\* the body of the for loop of _update_section
UpdateQuestionAnswer(T, submission, form_type, section_key, question_key, answer_data) ==
    LET unwrap == answer_data.isDict /\ answer_data.hasAnswer
        answer_value == IF unwrap THEN answer_data.answer ELSE EntryValue(answer_data)
        question_text == IF unwrap /\ answer_data.hasQuestion THEN answer_data.question
                         ELSE Title(question_key)
        T1 == QuestionGetOrCreate(T, form_type, section_key, question_key, question_text,
                                  DetermineFieldType(question_key, answer_value),
                                  IsSensitiveField(question_key))
        question == QuestionOf(T1, form_type, section_key, question_key)
    IN  AnswerUpsert(T1, submission, section_key, question_key, question.field_type, answer_value)

\* for question_key, answer_data in questions_and_answers.items()
RECURSIVE UpdateQuestions(_, _, _, _, _)
UpdateQuestions(T, submission, form_type, section_key, questions_and_answers) ==
    IF T.exc # "none" \/ Len(questions_and_answers) = 0 THEN T
    ELSE UpdateQuestions(
            UpdateQuestionAnswer(T, submission, form_type, section_key,
                                 Head(questions_and_answers)[1], Head(questions_and_answers)[2]),
            submission, form_type, section_key, Tail(questions_and_answers))

\* the special section updates at the end of _update_section
UpdateStructured(T, submission, section_key, questions_and_answers) ==
    IF T.exc # "none" THEN T
    ELSE IF section_key = K_dependents /\ MapHas(questions_and_answers, K_dependents)
         THEN UpdateDependentsFromSection(T, submission, MapGet(questions_and_answers, K_dependents))
    ELSE IF section_key = K_ownerInfo /\ MapHas(questions_and_answers, K_owners)
         THEN UpdateBusinessOwnersFromSection(T, submission, MapGet(questions_and_answers, K_owners))
    ELSE T

\* a variant whose except branch creates nothing
SectionCreateOrdered_Skipping(T, form_type, section_key, title) == T

\* the except branch of _update_section: FormSection.objects.create(..., order=count + 1)
SectionCreateOrdered(T, form_type, section_key, title) ==
    [T EXCEPT !.formSections = @ \cup
        {[form_type |-> form_type, section_key |-> section_key, title |-> title,
          order |-> Cardinality({r \in T.formSections : r.form_type = form_type}) + 1]}]

\* a variant of _update_section that first clears the submission, as _update_submission does
UpdateSectionRows_Clearing(T, submission, section_key, section_data) ==
    LET form_type == T.submissions[submission].form_type
        questions_and_answers == section_data.questionsAndAnswers
        T0 == [T EXCEPT !.sectionData = DeleteOf(@, submission),
                        !.answers = DeleteOf(@, submission),
                        !.dependents = DeleteOf(@, submission)]
        T1 == SectionDataUpsert(T0, submission, section_key, Blob(questions_and_answers))
        T2 == UpdateQuestions(T1, submission, form_type, section_key, questions_and_answers)
    IN  IF T.exc # "none" THEN T
        ELSE UpdateStructured(T2, submission, section_key, questions_and_answers)

\* _update_section
UpdateSectionRows(T, submission, section_key, section_data) ==
    LET form_type == T.submissions[submission].form_type
        questions_and_answers == section_data.questionsAndAnswers
        T0 == IF SectionExists(T, form_type, section_key) THEN T
              ELSE SectionCreateOrdered(T, form_type, section_key,
                                        SectionTitle(section_key, section_data))
        T1 == SectionDataUpsert(T0, submission, section_key, Blob(questions_and_answers))
        T2 == UpdateQuestions(T1, submission, form_type, section_key, questions_and_answers)
    IN  IF T.exc # "none" THEN T
        ELSE UpdateStructured(T2, submission, section_key, questions_and_answers)

\* for section_key, section_data in sections_data.items(): self._update_section
RECURSIVE UpdateSections(_, _, _)
UpdateSections(T, submission, sections_data) ==
    IF T.exc # "none" \/ Len(sections_data) = 0 THEN T
    ELSE UpdateSections(
            UpdateSectionRows(T, submission, Head(sections_data)[1], Head(sections_data)[2]),
            submission, Tail(sections_data))

----------------------------------------------------------------------------
(* Requests *)

Users == {"alice", "root"}

\* User.is_staff
IsStaff(user) == user = "root"

\* request.META: REMOTE_ADDR and HTTP_USER_AGENT
ClientIp == "203.0.113.7"
UserAgent == "Mozilla/5.0"

\* a key a request does not carry
Absent == "<absent>"

STATUS_CHOICES == {"draft", "submitted", "processing", "completed", "rejected"}

\* request.data of any of the handlers; the keys a handler does not read are Absent or empty
Request(formType, hasSections, sections, section_key, question_key, answer, items, status, notes) ==
    [formType |-> formType, hasSections |-> hasSections, sections |-> sections,
     section_key |-> section_key, question_key |-> question_key, answer |-> answer,
     items |-> items, status |-> status, processing_notes |-> notes]

NoRequest == Request(Absent, FALSE, EmptyMap, NoText, NoText, PyNone, NoItems, Absent, Absent)

\* a TaxFormSubmission row that does not exist
NoSubmission ==
    [exists |-> FALSE, form_type |-> "", user |-> "", status |-> "", processing_notes |-> ""]

\* the keys of a JSON object, in order: list(d.keys())
RECURSIVE KeyList(_)
KeyList(m) == IF Len(m) = 0 THEN <<>> ELSE <<Head(m)[1]>> \o KeyList(Tail(m))

\* the 'changes' of a FormAuditLog row
NoChanges ==
    [sections |-> <<>>, updated_fields |-> <<>>, section_key |-> NoText, question_key |-> NoText,
     old_value |-> PyNone, new_value |-> PyNone, names |-> <<>>]

\* FormAuditLog.objects.create(...)
AuditLogCreate(T, submission, action, user, changes, ip_address, user_agent) ==
    IF T.exc # "none" THEN T
    ELSE [T EXCEPT !.auditLog = Append(@, [id |-> T.nextLogId, submission |-> submission,
                                          action |-> action, user |-> user, changes |-> changes,
                                          ip_address |-> ip_address, user_agent |-> user_agent]),
                   !.nextLogId = @ + 1]

\* a variant without the transaction: the writes made before the exception stay
Atomic_NoRollback(before, after) == after

\* with transaction.atomic(): an exception that escapes the block rolls every write back;
\* the calls made to the CRM inside the block stay made
Atomic(before, after) ==
    IF after.exc # "none" THEN Raise([before EXCEPT !.crmCalls = after.crmCalls], after.exc)
    ELSE after

\* self.get_object() over get_queryset(): a non-staff user sees only their own submissions
GetObjectFinds(user, pk) ==
    submissions[pk].exists /\ (IsStaff(user) \/ submissions[pk].user = user)

\* the permission check at the head of the mutating handlers
PermissionDenied(user, pk) == ~IsStaff(user) /\ submissions[pk].user # user

\* the response: the HTTP status, the exception that escaped the handler, the request
Response(op, user, pk, code, exc, request) ==
    [op |-> op, user |-> user, pk |-> pk, code |-> code, exc |-> exc, request |-> request]

\* the database after the handler, and the response
Finish(T, op, user, pk, okCode, request) ==
    /\ formTypes' = T.formTypes
    /\ formSections' = T.formSections
    /\ formQuestions' = T.formQuestions
    /\ submissions' = T.submissions
    /\ sectionData' = T.sectionData
    /\ answers' = T.answers
    /\ dependents' = T.dependents
    /\ businessOwners' = T.businessOwners
    /\ vehicles' = T.vehicles
    /\ contributions' = T.contributions
    /\ auditLog' = T.auditLog
    /\ nextLogId' = T.nextLogId
    /\ crmCalls' = T.crmCalls
    /\ UNCHANGED <<crmUp, beyond>>
    /\ last' = Response(op, user, pk, IF T.exc = "none" THEN okCode ELSE 500, T.exc, request)

\* a response that is sent before anything is written; the payload of a rejected
\* request is not kept
Reject(op, user, pk, code) ==
    /\ UNCHANGED <<formTypes, formSections, formQuestions, submissions, sectionData, answers,
                   dependents, businessOwners, vehicles, contributions, auditLog, nextLogId,
                   crmUp, beyond>>
    /\ crmCalls' = <<>>
    /\ last' = Response(op, user, pk, code, "none", NoRequest)

----------------------------------------------------------------------------
(* The CRM collaborator *)

\* the tags the handlers send
TagAccessed == "tax toolbox accessed"
TagPersonalSubmitted == "personal form submitted for pipeline"
TagBusinessSubmitted == "business form submitted for pipeline"

\* a variant that lets the failure of the CRM escape to the caller
AddGhlContactTag_Raising(T, user, tag) ==
    IF T.exc # "none" THEN T
    ELSE LET called == [T EXCEPT !.crmCalls =
                           Append(@, [user |-> user, tag |-> tag, delivered |-> crmUp])]
         IN  IF crmUp THEN called ELSE Raise(called, "RequestException")

\* add_ghl_contact_tag(user, tag): the call reaches the CRM or fails; a failure is
\* logged and not raised to the caller
AddGhlContactTag(T, user, tag) ==
    IF T.exc # "none" THEN T
    ELSE [T EXCEPT !.crmCalls = Append(@, [user |-> user, tag |-> tag, delivered |-> crmUp])]

\* the tag update and partial_update send when the status goes to 'submitted':
\* old_status != 'submitted' and new_status == 'submitted', by form type name
SubmittedTag(T, old_status, new_status, owner, form_type_name) ==
    IF old_status # "submitted" /\ new_status = "submitted" /\ owner # ""
    THEN (IF form_type_name = "personal" THEN AddGhlContactTag(T, owner, TagPersonalSubmitted)
          ELSE IF form_type_name = "business"
               THEN AddGhlContactTag(T, owner, TagBusinessSubmitted)
          ELSE T)
    ELSE T

\* request.data.get('status', old_status)
NewStatus(T, pk, request) ==
    IF request.status = Absent THEN T.submissions[pk].status ELSE request.status

----------------------------------------------------------------------------
(* The handlers of TaxFormSubmissionViewSet, each as the writes of its     *)
(* transaction.  submission_date, the timestamps and the primary keys of   *)
(* the child rows are not modelled.                                        *)

\* TaxFormSubmissionCreateSerializer.create, inside its transaction.atomic()
CreateTxn(T, user, pk, request) ==
    LET T1 == [T EXCEPT !.formTypes = @ \cup {request.formType},
                        !.submissions[pk] =
                            [exists |-> TRUE, form_type |-> request.formType, user |-> user,
                             status |-> "submitted", processing_notes |-> ""]]
        T2 == ProcessSections(T1, pk, request.formType, request.sections)
    IN  AuditLogCreate(T2, pk, "created", user,
                       [NoChanges EXCEPT !.sections = KeyList(request.sections)], "", "")

\* a variant of _update_submission that clears nothing
UpdateSubmission_Keeping(T, pk, validated_data) ==
    ProcessSections(T, pk, T.submissions[pk].form_type, validated_data.sections)

\* _update_submission
UpdateSubmission(T, pk, validated_data) ==
    LET T1 == [T EXCEPT !.sectionData = DeleteOf(@, pk),
                        !.answers = DeleteOf(@, pk),
                        !.dependents = DeleteOf(@, pk),
                        !.businessOwners = DeleteOf(@, pk),
                        !.vehicles = DeleteOf(@, pk),
                        !.contributions = DeleteOf(@, pk)]
    IN  ProcessSections(T1, pk, T.submissions[pk].form_type, validated_data.sections)

\* update, inside its transaction.atomic()
UpdateTxn(T, user, pk, request) ==
    LET T1 == UpdateSubmission(T, pk, request)
        T2 == SubmittedTag(T1, T.submissions[pk].status, NewStatus(T, pk, request),
                           T.submissions[pk].user, T.submissions[pk].form_type)
    IN  AuditLogCreate(T2, pk, "updated", user,
                       [NoChanges EXCEPT !.sections = KeyList(request.sections)],
                       ClientIp, UserAgent)

\* the updated_fields of partial_update
UpdatedFields(T, pk, request) ==
    (IF request.status = Absent THEN <<>>
     ELSE <<[field |-> "status", old |-> T.submissions[pk].status, new |-> request.status]>>)
    \o (IF request.processing_notes = Absent THEN <<>>
        ELSE <<[field |-> "processing_notes", old |-> T.submissions[pk].processing_notes,
                new |-> request.processing_notes]>>)

\* partial_update, inside its transaction.atomic()
PartialUpdateTxn(T, user, pk, request) ==
    LET T1 == IF request.hasSections THEN UpdateSections(T, pk, request.sections) ELSE T
        T2 == IF T1.exc # "none" THEN T1
              ELSE [T1 EXCEPT !.submissions[pk].status =
                                  IF request.status = Absent THEN @ ELSE request.status,
                              !.submissions[pk].processing_notes =
                                  IF request.processing_notes = Absent THEN @
                                  ELSE request.processing_notes]
        T3 == SubmittedTag(T2, T.submissions[pk].status, NewStatus(T, pk, request),
                           T.submissions[pk].user, T.submissions[pk].form_type)
    IN  AuditLogCreate(T3, pk, "partial_update", user,
                       [NoChanges EXCEPT !.updated_fields = UpdatedFields(T, pk, request),
                                         !.sections = IF request.hasSections
                                                      THEN KeyList(request.sections) ELSE <<>>],
                       ClientIp, UserAgent)

\* update_section, inside its transaction.atomic()
UpdateSectionTxn(T, user, pk, request) ==
    LET section_data == MapGet(request.sections, request.section_key)
    IN  AuditLogCreate(UpdateSectionRows(T, pk, request.section_key, section_data),
                       pk, "section_updated", user,
                       [NoChanges EXCEPT !.section_key = request.section_key,
                                         !.names = KeyList(section_data.questionsAndAnswers)],
                       ClientIp, UserAgent)

\* str(value) if value is not None else None
StrOrNone(v) == IF v.t = "none" THEN PyNone ELSE Str(PyStr(v))

\* update_question, inside its transaction.atomic(), once section and question are found
UpdateQuestionTxn(T, user, pk, request) ==
    LET form_type == T.submissions[pk].form_type
        section_key == request.section_key
        question_key == request.question_key
        question == QuestionOf(T, form_type, section_key, question_key)
        i == AnswerIndex(T.answers, pk, section_key, question_key)
        old_value == IF i = 0 THEN PyNone
                     ELSE GetValue(question.field_type, T.answers[i].slots)
        T1 == AnswerUpsert(T, pk, section_key, question_key, question.field_type, request.answer)
        j == SectionDataIndex(T1.sectionData, pk, section_key)
        data == IF j = 0 THEN Blob(EmptyMap) ELSE T1.sectionData[j].data
        patched == [data EXCEPT !.hasNested = TRUE,
                                !.nested = MapPut(@, question_key,
                                                  Wrapped(question.question_text, request.answer))]
        T2 == IF T1.exc # "none" THEN T1 ELSE SectionDataUpsert(T1, pk, section_key, patched)
    IN  AuditLogCreate(T2, pk, "question_updated", user,
                       [NoChanges EXCEPT !.section_key = section_key,
                                         !.question_key = question_key,
                                         !.old_value = StrOrNone(old_value),
                                         !.new_value = StrOrNone(request.answer)],
                       ClientIp, UserAgent)

\* the names of the rows a loop created
RECURSIVE CreatedNames(_)
CreatedNames(items) ==
    IF Len(items) = 0 THEN <<>>
    ELSE (IF Head(items).isDict /\ Head(items).name # NoText THEN <<Head(items).name>> ELSE <<>>)
         \o CreatedNames(Tail(items))

\* the blob _update_dependents_section_data / _update_business_owners_section_data writes
ListBlob(key, question, items) ==
    [top |-> EmptyMap, hasNested |-> TRUE,
     nested |-> <<<<key, Wrapped(question, JsonDumps(items))>>>>]

\* _update_dependents_section_data
UpdateDependentsSectionData(T, pk, dependents_data) ==
    IF T.exc # "none" \/ ~SectionExists(T, T.submissions[pk].form_type, K_dependents) THEN T
    ELSE SectionDataUpsert(T, pk, K_dependents,
                           ListBlob(K_dependents, <<"List of Dependents">>, dependents_data))

\* _update_business_owners_section_data
UpdateBusinessOwnersSectionData(T, pk, owners_data) ==
    IF T.exc # "none" \/ ~SectionExists(T, T.submissions[pk].form_type, K_ownerInfo) THEN T
    ELSE SectionDataUpsert(T, pk, K_ownerInfo,
                           ListBlob(K_owners, <<"Business Owners Details">>, owners_data))

\* update_dependents, inside its transaction.atomic()
UpdateDependentsTxn(T, user, pk, request) ==
    LET made == CreateDated(DeleteOf(T.dependents, pk), pk, request.items, TRUE)
        T1 == IF made.exc # "none" THEN Raise([T EXCEPT !.dependents = made.rows], made.exc)
              ELSE [T EXCEPT !.dependents = made.rows]
        T2 == UpdateDependentsSectionData(T1, pk, request.items)
    IN  AuditLogCreate(T2, pk, "dependents_updated", user,
                       [NoChanges EXCEPT !.names = CreatedNames(request.items)],
                       ClientIp, UserAgent)

\* update_business_owners, inside its transaction.atomic()
UpdateBusinessOwnersTxn(T, user, pk, request) ==
    LET made == CreatePlain(DeleteOf(T.businessOwners, pk), pk, request.items, TRUE)
        T1 == [T EXCEPT !.businessOwners = made.rows]
        T2 == UpdateBusinessOwnersSectionData(T1, pk, request.items)
    IN  AuditLogCreate(T2, pk, "business_owners_updated", user,
                       [NoChanges EXCEPT !.names = CreatedNames(request.items)],
                       ClientIp, UserAgent)

\* update_status: submission.save() and the audit row, with no transaction around them
UpdateStatusWrites(T, user, pk, request) ==
    AuditLogCreate([T EXCEPT !.submissions[pk].status = request.status],
                   pk, "status_updated", user,
                   [NoChanges EXCEPT !.updated_fields =
                        <<[field |-> "status", old |-> T.submissions[pk].status,
                           new |-> request.status]>>],
                   ClientIp, UserAgent)

----------------------------------------------------------------------------
(* The requests the model sends *)

K_basicInfo == <<"basic", "Info">>
K_firstName == <<"first", "Name">>
K_ssn == <<"ssn">>
K_age == <<"age">>
K_signature == <<"signature">>

Ann == [isDict |-> TRUE, name |-> <<"Ann">>, date |-> TRUE]
Ben == [isDict |-> TRUE, name |-> <<"Ben">>, date |-> TRUE]
Nameless == [isDict |-> TRUE, name |-> NoText, date |-> TRUE]
Undated == [isDict |-> TRUE, name |-> <<"Cy">>, date |-> FALSE]
Car == [isDict |-> TRUE, name |-> <<"Car">>, date |-> TRUE]
Van == [isDict |-> TRUE, name |-> <<"Van">>, date |-> TRUE]
RedCross == [isDict |-> TRUE, name |-> <<"Red", "Cross">>, date |-> FALSE]

\* one section of a payload: {sectionTitle?, questionsAndAnswers}
Section(questions_and_answers) ==
    [sectionTitle |-> NoText, questionsAndAnswers |-> questions_and_answers]

\* a section whose only entry is a structured sub-payload
ListSection(key, question, answer) == Section(<<<<key, Wrapped(question, answer)>>>>)

\* basicInfo sections: a name and an SSN; a name that looks like a number; one that looks
\* like a boolean; a typed signature
BasicJane ==
    Section(<< <<K_firstName, Wrapped(<<"First", "Name">>, Str(<<"Jane">>))>>,
               <<K_ssn, Wrapped(<<"SSN">>, Str(<<"123-45-6789">>))>> >>)
BasicDigits == Section(<< <<K_firstName, Wrapped(<<"First", "Name">>, Str(<<"4", "2">>))>> >>)
BasicYes == Section(<< <<K_firstName, Wrapped(<<"First", "Name">>, Str(<<"Yes">>))>> >>)
BasicAnswerOnly == Section(<< <<K_firstName, AnswerOnly(Str(<<"Jane">>))>> >>)
BasicSigned == Section(<< <<K_signature, Wrapped(<<"Signature">>, Str(<<"Jane">>))>> >>)

\* dependents sections: a list, a shorter list, the JSON text of a list with a nameless
\* item, a text that is no JSON, a list whose item has no date of birth
DepsAnnBen == ListSection(K_dependents, <<"Dependents">>, PyList(<<Ann, Ben>>))
DepsAnn == ListSection(K_dependents, <<"Dependents">>, PyList(<<Ann>>))
DepsJson == ListSection(K_dependents, <<"Dependents">>, JsonDumps(<<Ben, Nameless>>))
DepsBadJson == ListSection(K_dependents, <<"Dependents">>, Str(BadJsonText))
DepsUndated == ListSection(K_dependents, <<"Dependents">>, PyList(<<Undated>>))

OwnersAnn == ListSection(K_owners, <<"Owners">>, PyList(<<Ann>>))
OwnersNamelessBen == ListSection(K_owners, <<"Owners">>, PyList(<<Nameless, Ben>>))
VehiclesCar == ListSection(K_vehicles, <<"Vehicles">>, PyList(<<Car>>))
VehiclesVan == ListSection(K_vehicles, <<"Vehicles">>, PyList(<<Van>>))
CharitiesRedCross == ListSection(K_charitableOrganizations, <<"Charities">>, PyList(<<RedCross>>))
CharitiesNone == ListSection(K_charitableOrganizations, <<"Charities">>, PyList(NoItems))

\* owners, vehicles and charities as a text that is no JSON
OwnersBadJson == ListSection(K_owners, <<"Owners">>, Str(BadJsonText))
VehiclesBadJson == ListSection(K_vehicles, <<"Vehicles">>, Str(BadJsonText))
CharitiesBadJson == ListSection(K_charitableOrganizations, <<"Charities">>, Str(BadJsonText))

\* the sections maps of create and update
FullSections ==
    { << <<K_basicInfo, BasicJane>>, <<K_dependents, DepsAnnBen>> >>,
      << <<K_basicInfo, BasicDigits>> >>,
      << <<K_basicInfo, BasicYes>> >>,
      << <<K_dependents, DepsJson>>, <<K_ownerInfo, OwnersAnn>> >>,
      << <<K_incomeExpenses, VehiclesCar>>, <<K_deductions, CharitiesRedCross>> >>,
      << <<K_dependents, DepsBadJson>> >>,
      << <<K_ownerInfo, OwnersBadJson>>, <<K_incomeExpenses, VehiclesBadJson>>,
         <<K_deductions, CharitiesBadJson>> >>,
      << <<K_dependents, DepsUndated>> >> }

\* the sections maps of partial_update and update_section: one section each
OneSection ==
    { << <<K_basicInfo, BasicJane>> >>,
      << <<K_basicInfo, BasicDigits>> >>,
      << <<K_basicInfo, BasicYes>> >>,
      << <<K_basicInfo, BasicSigned>> >>,
      << <<K_dependents, DepsAnn>> >>,
      << <<K_dependents, DepsJson>> >>,
      << <<K_dependents, DepsBadJson>> >>,
      << <<K_dependents, DepsUndated>> >>,
      << <<K_ownerInfo, OwnersNamelessBen>> >>,
      << <<K_ownerInfo, OwnersBadJson>> >>,
      << <<K_incomeExpenses, VehiclesVan>> >>,
      << <<K_incomeExpenses, VehiclesBadJson>> >>,
      << <<K_deductions, CharitiesNone>> >> }

FullRequest(sections) ==
    Request("personal", TRUE, sections, NoText, NoText, PyNone, NoItems, Absent, Absent)
PatchSections(sections) ==
    Request(Absent, TRUE, sections, NoText, NoText, PyNone, NoItems, Absent, Absent)
PatchStatus(status) ==
    Request(Absent, FALSE, EmptyMap, NoText, NoText, PyNone, NoItems, status, Absent)
PatchNotes(notes) ==
    Request(Absent, FALSE, EmptyMap, NoText, NoText, PyNone, NoItems, Absent, notes)
SectionRequest(sections) ==
    Request(Absent, TRUE, sections, sections[1][1], NoText, PyNone, NoItems, Absent, Absent)
QuestionRequest(section_key, question_key, answer) ==
    Request(Absent, FALSE, EmptyMap, section_key, question_key, answer, NoItems, Absent, Absent)
ItemsRequest(items) ==
    Request(Absent, FALSE, EmptyMap, NoText, NoText, PyNone, items, Absent, Absent)

\* who sends what: <<user, request.data>>.  alice is a client, root is staff.

\* the payloads of create and update: formType, submissionDate, sections
FullRequests ==
    {<<"alice", FullRequest(sections)>> : sections \in FullSections}
    \cup {<<"root", FullRequest(<< <<K_basicInfo, BasicJane>>, <<K_dependents, DepsAnnBen>> >>)>>}

\* the payloads of partial_update
PatchRequests ==
    {<<"alice", PatchSections(sections)>> : sections \in OneSection}
    \cup {<<"alice", PatchStatus(status)>> : status \in {"draft", "submitted", "archived"}}
    \cup {<<"alice", PatchNotes("checked")>>, <<"root", PatchStatus("processing")>>}

\* the payloads of update_section: section_key and section_data
SectionRequests ==
    {<<"alice", SectionRequest(sections)>> : sections \in OneSection}
    \cup {<<"alice", Request(Absent, FALSE, EmptyMap, K_basicInfo, NoText, PyNone, NoItems,
                             Absent, Absent)>>}

\* the payloads of update_question: section_key, question_key and answer
QuestionRequests ==
    {<<"alice", QuestionRequest(K_basicInfo, K_firstName, Str(<<"Bob">>))>>,
     <<"alice", QuestionRequest(K_basicInfo, K_firstName, Str(<<"7">>))>>,
     <<"alice", QuestionRequest(K_basicInfo, K_firstName, Str(NoText))>>,
     <<"alice", QuestionRequest(K_dependents, K_dependents, Str(<<"null">>))>>,
     <<"alice", QuestionRequest(K_basicInfo, K_ssn, Str(<<"987-65-4321">>))>>,
     <<"alice", QuestionRequest(K_basicInfo, K_age, Str(<<"7">>))>>,
     <<"alice", QuestionRequest(K_deductions, K_firstName, Str(<<"Bob">>))>>,
     <<"alice", QuestionRequest(NoText, K_firstName, Str(<<"Bob">>))>>,
     <<"root", QuestionRequest(K_basicInfo, K_firstName, Str(<<"Bob">>))>>}

\* the payloads of update_dependents
DependentsRequests ==
    {<<"alice", ItemsRequest(items)>> : items \in {<<Ann>>, <<Ben, Nameless>>, NoItems, <<Undated>>}}

\* the payloads of update_business_owners
OwnersRequests ==
    {<<"alice", ItemsRequest(items)>> : items \in {<<Ann>>, <<Nameless, Ben>>}}

\* the payloads of update_status
StatusRequests ==
    {<<"alice", PatchStatus(status)>> : status \in {"processing", "archived", Absent}}
    \cup {<<"root", PatchStatus("completed")>>}

SubmissionIds == 1..MaxSubmissions

\* requests arrive while FormAuditLog has primary keys left
Arrives == nextLogId <= MaxLogId

----------------------------------------------------------------------------
(* Actions: one request each *)

\* create: serializer.save(), then the tag for the CRM, then the response
CreateView(user, request) ==
    \E pk \in SubmissionIds :
        /\ ~submissions[pk].exists
        /\ \A other \in SubmissionIds : other < pk => submissions[other].exists
        /\ Finish(AddGhlContactTag(Atomic(Tables, CreateTxn(Tables, user, pk, request)),
                                   user, TagAccessed),
                  "create", user, pk, 201, request)

\* POST submissions/
Create(user, request) == Arrives /\ CreateView(user, request)

\* update
UpdateView(user, pk, request) ==
    IF ~GetObjectFinds(user, pk) THEN Reject("update", user, pk, 404)
    ELSE IF PermissionDenied(user, pk) THEN Reject("update", user, pk, 403)
    ELSE Finish(Atomic(Tables, UpdateTxn(Tables, user, pk, request)),
                "update", user, pk, 200, request)

\* PUT submissions/{pk}/
Update(user, pk, request) == Arrives /\ UpdateView(user, pk, request)

\* partial_update
PartialUpdateView(user, pk, request) ==
    IF ~GetObjectFinds(user, pk) THEN Reject("partial_update", user, pk, 404)
    ELSE IF PermissionDenied(user, pk) THEN Reject("partial_update", user, pk, 403)
    ELSE Finish(Atomic(Tables, PartialUpdateTxn(Tables, user, pk, request)),
                "partial_update", user, pk, 200, request)

\* PATCH submissions/{pk}/
PartialUpdate(user, pk, request) == Arrives /\ PartialUpdateView(user, pk, request)

\* PUT/PATCH submissions/{pk}/update_section/
UpdateSection(user, pk, request) ==
    /\ Arrives
    /\ IF ~GetObjectFinds(user, pk) THEN Reject("update_section", user, pk, 404)
       ELSE IF request.section_key = NoText \/ ~request.hasSections
            THEN Reject("update_section", user, pk, 400)
       ELSE IF PermissionDenied(user, pk) THEN Reject("update_section", user, pk, 403)
       ELSE Finish(Atomic(Tables, UpdateSectionTxn(Tables, user, pk, request)),
                   "update_section", user, pk, 200, request)

\* PATCH submissions/{pk}/update_question/
UpdateQuestion(user, pk, request) ==
    /\ Arrives
    /\ IF ~GetObjectFinds(user, pk) THEN Reject("update_question", user, pk, 404)
       ELSE IF request.question_key = NoText \/ request.section_key = NoText
            THEN Reject("update_question", user, pk, 400)
       ELSE IF PermissionDenied(user, pk) THEN Reject("update_question", user, pk, 403)
       ELSE IF ~SectionExists(Tables, submissions[pk].form_type, request.section_key)
               \/ ~QuestionExists(Tables, submissions[pk].form_type, request.section_key,
                                  request.question_key)
            THEN Reject("update_question", user, pk, 404)
       ELSE Finish(Atomic(Tables, UpdateQuestionTxn(Tables, user, pk, request)),
                   "update_question", user, pk, 200, request)

\* PUT/PATCH submissions/{pk}/update_dependents/
UpdateDependents(user, pk, request) ==
    /\ Arrives
    /\ IF ~GetObjectFinds(user, pk) THEN Reject("update_dependents", user, pk, 404)
       ELSE IF PermissionDenied(user, pk) THEN Reject("update_dependents", user, pk, 403)
       ELSE Finish(Atomic(Tables, UpdateDependentsTxn(Tables, user, pk, request)),
                   "update_dependents", user, pk, 200, request)

\* PUT/PATCH submissions/{pk}/update_business_owners/
UpdateBusinessOwners(user, pk, request) ==
    /\ Arrives
    /\ IF ~GetObjectFinds(user, pk) THEN Reject("update_business_owners", user, pk, 404)
       ELSE IF PermissionDenied(user, pk)
            THEN Reject("update_business_owners", user, pk, 403)
       ELSE Finish(Atomic(Tables, UpdateBusinessOwnersTxn(Tables, user, pk, request)),
                   "update_business_owners", user, pk, 200, request)

\* update_status
UpdateStatusView(user, pk, request) ==
    IF ~GetObjectFinds(user, pk) THEN Reject("update_status", user, pk, 404)
    ELSE IF request.status \notin STATUS_CHOICES
         THEN Reject("update_status", user, pk, 400)
    ELSE Finish(UpdateStatusWrites(Tables, user, pk, request),
                "update_status", user, pk, 200, request)

\* PATCH submissions/{pk}/update_status/
UpdateStatus(user, pk, request) == Arrives /\ UpdateStatusView(user, pk, request)

\* the connections that run a full replace at the same time
TxnIds == {1, 2}

\* a connection with no transaction open
NoTxn == [pc |-> "idle", user |-> "", pk |-> 0, request |-> NoRequest, met |-> {},
          deleted |-> <<>>, outcome |-> "none"]

\* the ids of the SurveySubmission rows
SurveyIds == {"s1", "s2"}

\* a SurveySubmission row that does not exist
NoSurvey == [exists |-> FALSE, user |-> "", form_type |-> "", status |-> "", data_status |-> ""]

\* the accounts of the admin portal
Accounts == {"root", "alice"}

\* a User without a UserProfile row
NoProfile ==
    [exists |-> FALSE, is_admin |-> FALSE, is_super_admin |-> FALSE, can_list_users |-> FALSE,
     is_staff |-> FALSE]

\* the deployment's first super admin
RootProfile ==
    [exists |-> TRUE, is_admin |-> TRUE, is_super_admin |-> TRUE, can_list_users |-> TRUE,
     is_staff |-> TRUE]

\* no value is on its way
NoColumn == [step |-> "none", given |-> PyNone, stored |-> PyNone, exc |-> "none", read |-> PyNone]

InitBeyond ==
    /\ txns = [t \in TxnIds |-> NoTxn]
    /\ surveys = [id \in SurveyIds |-> NoSurvey]
    /\ column = NoColumn
    /\ profiles = [u \in Accounts |-> IF u = "root" THEN RootProfile ELSE NoProfile]

Init ==
    /\ formTypes = {}
    /\ formSections = {}
    /\ formQuestions = {}
    /\ submissions = [pk \in SubmissionIds |-> NoSubmission]
    /\ sectionData = <<>>
    /\ answers = <<>>
    /\ dependents = <<>>
    /\ businessOwners = <<>>
    /\ vehicles = <<>>
    /\ contributions = <<>>
    /\ auditLog = <<>>
    /\ nextLogId = 1
    /\ crmUp = TRUE
    /\ crmCalls = <<>>
    /\ last = Response("none", "", 0, 0, "none", NoRequest)
    /\ InitBeyond

\* the submissions a client addresses: those that were created
Created == {pk \in SubmissionIds : submissions[pk].exists}

Next ==
    \/ \E r \in FullRequests : Create(r[1], r[2])
    \/ \E pk \in Created, r \in FullRequests : Update(r[1], pk, r[2])
    \/ \E pk \in Created, r \in PatchRequests : PartialUpdate(r[1], pk, r[2])
    \/ \E pk \in Created, r \in SectionRequests : UpdateSection(r[1], pk, r[2])
    \/ \E pk \in Created, r \in QuestionRequests : UpdateQuestion(r[1], pk, r[2])
    \/ \E pk \in Created, r \in DependentsRequests : UpdateDependents(r[1], pk, r[2])
    \/ \E pk \in Created, r \in OwnersRequests : UpdateBusinessOwners(r[1], pk, r[2])
    \/ \E pk \in Created, r \in StatusRequests : UpdateStatus(r[1], pk, r[2])

Spec == Init /\ [][Next]_vars

----------------------------------------------------------------------------
(* The two section materializers called directly, twice in a row with the   *)
(* same payload, on a submission that create has committed.                *)

\* the arguments of a direct call, kept on `last` for the call that repeats it
CallOf(op, pk, request, T) == Response(op, submissions[pk].user, pk, 0, T.exc, request)

\* the tables after a direct call, outside any transaction.atomic()
Called(T, op, pk, request) ==
    /\ formTypes' = T.formTypes
    /\ formSections' = T.formSections
    /\ formQuestions' = T.formQuestions
    /\ submissions' = T.submissions
    /\ sectionData' = T.sectionData
    /\ answers' = T.answers
    /\ dependents' = T.dependents
    /\ businessOwners' = T.businessOwners
    /\ vehicles' = T.vehicles
    /\ contributions' = T.contributions
    /\ auditLog' = T.auditLog
    /\ nextLogId' = T.nextLogId
    /\ crmCalls' = T.crmCalls
    /\ UNCHANGED <<crmUp, beyond>>
    /\ last' = CallOf(op, pk, request, T)

\* serializer._process_section(submission, submission.form_type, section_key, section_data)
CallProcessSection(pk, request) ==
    ProcessSection(Tables, pk, submissions[pk].form_type, request.section_key,
                   MapGet(request.sections, request.section_key))

\* self._update_section(submission, section_key, section_data)
CallUpdateSection(pk, request) ==
    UpdateSectionRows(Tables, pk, request.section_key,
                      MapGet(request.sections, request.section_key))

\* the first call of _process_section, after create
ProcessSectionOnce(pk, request) ==
    /\ last.op = "create" /\ last.code = 201 /\ last.pk = pk
    /\ Called(CallProcessSection(pk, request), "_process_section", pk, request)

\* the same call again
ProcessSectionAgain ==
    /\ last.op = "_process_section" /\ last.exc = "none"
    /\ Called(CallProcessSection(last.pk, last.request), "_process_section again",
              last.pk, last.request)

\* the first call of _update_section, after create
UpdateSectionOnce(pk, request) ==
    /\ last.op = "create" /\ last.code = 201 /\ last.pk = pk
    /\ Called(CallUpdateSection(pk, request), "_update_section", pk, request)

\* the same call again
UpdateSectionAgain ==
    /\ last.op = "_update_section" /\ last.exc = "none"
    /\ Called(CallUpdateSection(last.pk, last.request), "_update_section again",
              last.pk, last.request)

\* the payloads of the direct calls
CallRequests ==
    {SectionRequest(sections) : sections \in OneSection \cup {<< <<K_basicInfo, BasicAnswerOnly>> >>}}

NextMaterialize ==
    \/ \E r \in FullRequests : Create(r[1], r[2])
    \/ \E pk \in Created, request \in CallRequests : ProcessSectionOnce(pk, request)
    \/ ProcessSectionAgain
    \/ \E pk \in Created, request \in CallRequests : UpdateSectionOnce(pk, request)
    \/ UpdateSectionAgain

SpecMaterialize == Init /\ [][NextMaterialize]_vars

----------------------------------------------------------------------------
(* Idempotent re-materialization *)

\* C1: materializing the same section payload a second time for the same
\* (submission, section) succeeds and leaves the FormSectionData and FormAnswer rows
\* as the first call left them, for _process_section as well as for _update_section.
C1_RematerializeIdempotent ==
    [][last'.op \in {"_process_section again", "_update_section again"}
          => /\ last'.exc = "none"
             /\ sectionData' = sectionData
             /\ answers' = answers]_vars

\* the second _process_section for the same (submission, section) has raised
C1_SecondProcessSectionRaises ==
    /\ last.op = "_process_section again"
    /\ last.exc = "IntegrityError"
    /\ Len(RowsOf(sectionData, last.pk)) > 0

\* C1, the half that holds: a second _update_section with the same payload succeeds and
\* leaves the FormSectionData and FormAnswer rows as they were
C1_UpdateSectionIdempotent ==
    [][last'.op = "_update_section again"
          => /\ last'.exc = "none"
             /\ sectionData' = sectionData
             /\ answers' = answers]_vars

----------------------------------------------------------------------------
(* Partial update and full replace *)

\* the section keys the requests use
SectionKeys == {K_basicInfo, K_dependents, K_ownerInfo, K_incomeExpenses, K_deductions}

\* the FormSectionData or FormAnswer rows of one section of a submission
SectionRows(rows, pk, section_key) ==
    SelectSeq(rows, LAMBDA r : r.submission = pk /\ r.section_key = section_key)

\* the sub-entity rows of a submission that a section governs
GovernedRows ==
    [pk \in SubmissionIds, section_key \in SectionKeys |->
        CASE section_key = K_dependents -> RowsOf(dependents, pk)
          [] section_key = K_ownerInfo -> RowsOf(businessOwners, pk)
          [] section_key = K_incomeExpenses -> RowsOf(vehicles, pk)
          [] section_key = K_deductions -> RowsOf(contributions, pk)
          [] OTHER -> <<>>]

\* the request handled last was a partial update of sections: partial_update with a
\* sections map, or update_section
SectionsPatched(response) ==
    /\ response.op \in {"partial_update", "update_section"}
    /\ response.code \in {200, 500}
    /\ response.request.hasSections

\* C2: a partial update (partial_update with a sections map, or update_section) leaves
\* the FormSectionData rows, the FormAnswer rows and the sub-entity rows of every
\* section it does not name exactly as they were.
C2_UnnamedSectionsUntouched ==
    [][SectionsPatched(last')
          => \A B \in SectionKeys \ MapKeys(last'.request.sections) :
                /\ SectionRows(sectionData', last'.pk, B) = SectionRows(sectionData, last'.pk, B)
                /\ SectionRows(answers', last'.pk, B) = SectionRows(answers, last'.pk, B)
                /\ GovernedRows'[last'.pk, B] = GovernedRows[last'.pk, B]]_vars

\* a committed partial update of basicInfo alone on a submission that also holds a
\* dependents section with its FormSectionData row, FormAnswer row and two dependents
C2_PatchedBesideDependents ==
    /\ SectionsPatched(last)
    /\ last.code = 200
    /\ MapKeys(last.request.sections) = {K_basicInfo}
    /\ Len(SectionRows(sectionData, last.pk, K_basicInfo)) = 1
    /\ Len(SectionRows(sectionData, last.pk, K_dependents)) = 1
    /\ Len(SectionRows(answers, last.pk, K_dependents)) = 1
    /\ Len(GovernedRows[last.pk, K_dependents]) = 2

\* the keys of a sequence of rows, as a set
KeysOf(rows) == {<<rows[i].section_key, rows[i].question_key>> : i \in 1..Len(rows)}

\* the (section, question) keys a sections map names
QuestionsNamed(sections) ==
    UNION {{<<sections[i][1], question_key>> :
                question_key \in MapKeys(sections[i][2].questionsAndAnswers)} :
           i \in 1..Len(sections)}

\* the list key of the structured section
ListKey(section_key) ==
    CASE section_key = K_dependents -> K_dependents
      [] section_key = K_ownerInfo -> K_owners
      [] section_key = K_incomeExpenses -> K_vehicles
      [] section_key = K_deductions -> K_charitableOrganizations
      [] OTHER -> NoText

\* the names of the items a sections map lists for the kind a section governs
NamesListed(sections, section_key) ==
    IF ~MapHas(sections, section_key) THEN {}
    ELSE LET questions == MapGet(sections, section_key).questionsAndAnswers
         IN  IF ~MapHas(questions, ListKey(section_key)) THEN {}
             ELSE LET items == MapGet(questions, ListKey(section_key)).answer.l
                  IN  {items[i].name : i \in 1..Len(items)}

\* C3: after a full replace (PUT update) with payload P has committed, the submission's
\* FormSectionData rows are exactly those of the sections of P (one each, holding P's
\* entries), its FormAnswer rows are exactly those of the questions of P (one each),
\* and its dependents, owners, vehicles and contributions are only those P lists.
C3_FullReplaceLeavesOnlyPayload ==
    (last.op = "update" /\ last.code = 200)
        => LET P == last.request.sections
               data == RowsOf(sectionData, last.pk)
               given == RowsOf(answers, last.pk)
           IN  /\ {data[i].section_key : i \in 1..Len(data)} = MapKeys(P)
               /\ Len(data) = Len(P)
               /\ \A i \in 1..Len(data) :
                     data[i].data = Blob(MapGet(P, data[i].section_key).questionsAndAnswers)
               /\ KeysOf(given) = QuestionsNamed(P)
               /\ Len(given) = Cardinality(QuestionsNamed(P))
               /\ \A section_key \in SectionKeys :
                     LET rows == GovernedRows[last.pk, section_key]
                     IN  {rows[i].name : i \in 1..Len(rows)} \subseteq NamesListed(P, section_key)

\* a committed full replace whose payload omits a section the submission was created
\* with, and lists sub-entities
C3_ReplacedWithoutASection ==
    /\ last.op = "update" /\ last.code = 200
    /\ \E i \in 1..Len(auditLog) :
          /\ auditLog[i].action = "created"
          /\ auditLog[i].submission = last.pk
          /\ \E k \in 1..Len(auditLog[i].changes.sections) :
                ~MapHas(last.request.sections, auditLog[i].changes.sections[k])
    /\ \E section_key \in SectionKeys : Len(GovernedRows[last.pk, section_key]) > 0

----------------------------------------------------------------------------
(* Sticky question types and the uniqueness of rows *)

\* the slot FormAnswer.set_value fills for a field type
SlotOf(field_type) ==
    CASE field_type = "encrypted" -> "encrypted_value"
      [] field_type = "number" -> "number_value"
      [] field_type = "boolean" -> "boolean_value"
      [] field_type = "date" -> "date_value"
      [] field_type = "json" -> "json_value"
      [] OTHER -> "text_value"

\* the FormQuestion rows of a (form type, section, question_key)
QuestionsAt(questions, form_type, section_key, question_key) ==
    {q \in questions : /\ q.form_type = form_type
                       /\ q.section_key = section_key
                       /\ q.question_key = question_key}

\* every FormAnswer row holds its value in the slot of its question's field_type only
StoredUnderQuestionType ==
    \A i \in 1..Len(answers) :
        \A q \in QuestionsAt(formQuestions, submissions[answers[i].submission].form_type,
                             answers[i].section_key, answers[i].question_key) :
            \A slot \in DOMAIN ClearedSlots :
                slot # SlotOf(q.field_type) => answers[i].slots[slot] = PyNone

\* C4: once a FormQuestion exists for a (section, question_key), every request leaves
\* it the only row of its key with its field_type and is_sensitive as they were, and
\* every answer is stored in the slot of that field_type, whatever type its shape
\* would infer.
C4_QuestionTypeSticky ==
    [][/\ \A q \in formQuestions :
             QuestionsAt(formQuestions', q.form_type, q.section_key, q.question_key) = {q}
       /\ StoredUnderQuestionType']_vars

\* a committed request has stored an answer of another shape under the question's
\* field_type: the classifier would infer a different type from the answer it brought
C4_OtherShapeStored ==
    /\ last.code \in {200, 201}
    /\ last.op \in {"create", "update", "partial_update", "update_section"}
    /\ \E i \in 1..Len(last.request.sections) :
          LET section_key == last.request.sections[i][1]
              entries == last.request.sections[i][2].questionsAndAnswers
          IN  \E k \in 1..Len(entries) :
                \E q \in QuestionsAt(formQuestions, submissions[last.pk].form_type,
                                     section_key, entries[k][1]) :
                    /\ DetermineFieldType(entries[k][1], entries[k][2].answer) # q.field_type
                    /\ \E a \in 1..Len(answers) :
                          /\ answers[a].submission = last.pk
                          /\ answers[a].section_key = section_key
                          /\ answers[a].question_key = entries[k][1]
                          /\ answers[a].slots[SlotOf(q.field_type)] # PyNone

\* the 'created' audit row of a submission lists a section
CreatedWith(pk, section_key) ==
    \E i \in 1..Len(auditLog) :
        /\ auditLog[i].action = "created"
        /\ auditLog[i].submission = pk
        /\ \E k \in 1..Len(auditLog[i].changes.sections) :
              auditLog[i].changes.sections[k] = section_key

\* C5: each (submission, question) pair has at most one FormAnswer row in every
\* reachable state: a re-submitted question overwrites its row.
C5_OneAnswerPerQuestion ==
    \A i, j \in 1..Len(answers) :
        (/\ answers[i].submission = answers[j].submission
         /\ answers[i].section_key = answers[j].section_key
         /\ answers[i].question_key = answers[j].question_key) => i = j

\* update_question has overwritten the answer the submission was created with: the one
\* row of the question holds the new answer
C5_AnswerOverwritten ==
    /\ last.op = "update_question" /\ last.code = 200
    /\ CreatedWith(last.pk, last.request.section_key)
    /\ LET rows == SelectSeq(SectionRows(answers, last.pk, last.request.section_key),
                             LAMBDA r : r.question_key = last.request.question_key)
       IN  /\ Len(rows) = 1
           /\ rows[1].slots.text_value = Str(PyStr(last.request.answer))

\* C6: each (submission, section) pair has at most one FormSectionData row in every
\* reachable state.
C6_OneSectionDataPerSection ==
    \A i, j \in 1..Len(sectionData) :
        (/\ sectionData[i].submission = sectionData[j].submission
         /\ sectionData[i].section_key = sectionData[j].section_key) => i = j

\* a partial update has rewritten the FormSectionData row of a section the submission
\* was created with: the one row of the section holds the new entries
C6_SectionDataRewritten ==
    /\ last.op \in {"partial_update", "update_section"} /\ last.code = 200
    /\ last.request.hasSections
    /\ \E k \in 1..Len(last.request.sections) :
          LET section_key == last.request.sections[k][1]
              rows == SectionRows(sectionData, last.pk, section_key)
          IN  /\ CreatedWith(last.pk, section_key)
              /\ Len(rows) = 1
              /\ rows[1].data = Blob(last.request.sections[k][2].questionsAndAnswers)

----------------------------------------------------------------------------
(* Atomicity *)

\* C7: a full replace or partial update out of which an exception escapes leaves the
\* submissions (their status included), the section data, the answers, the sub-entity
\* rows and the audit log exactly as they were before it started.
C7_FailedUpdateChangesNothing ==
    [][(last'.op \in {"update", "partial_update"} /\ last'.exc # "none")
          => UNCHANGED <<submissions, sectionData, answers, dependents, businessOwners,
                         vehicles, contributions, auditLog>>]_vars

\* a partial update has failed on a value that cannot be coerced to the question's
\* field type, after _update_section had already rewritten the section's blob
C7_CoercionFailed ==
    /\ last.op = "partial_update"
    /\ last.exc = "ValueError"
    /\ last.code = 500
    /\ \E k \in 1..Len(last.request.sections) :
          LET rows == SectionRows(sectionData, last.pk, last.request.sections[k][1])
          IN  /\ Len(rows) = 1
              /\ rows[1].data # Blob(last.request.sections[k][2].questionsAndAnswers)

----------------------------------------------------------------------------
(* The three representations of a submission *)

K_questionsAndAnswers == <<"questions", "And", "Answers">>

\* the top-level keys of a FormSectionData blob
BlobKeys(data) ==
    MapKeys(data.top) \cup (IF data.hasNested THEN {K_questionsAndAnswers} ELSE {})

\* the answer of a blob entry
EntryAnswer(entry) ==
    IF entry.isDict /\ entry.hasAnswer THEN entry.answer ELSE EntryValue(entry)

\* the names of the items of the list a blob holds for the kind its section governs,
\* at the top level or under 'questionsAndAnswers'
BlobNames(data, section_key) ==
    LET entries == IF MapHas(data.top, ListKey(section_key)) THEN data.top ELSE data.nested
    IN  IF ~MapHas(entries, ListKey(section_key)) THEN {}
        ELSE LET items == EntryAnswer(MapGet(entries, ListKey(section_key))).l
             IN  {items[i].name : i \in 1..Len(items)} \ {NoText}

\* the operations after which the representations are compared
Committed(response) ==
    /\ response.op \in {"create", "update", "partial_update", "update_question",
                        "update_dependents", "update_business_owners"}
    /\ response.code \in {200, 201}

\* the representations of one section of a submission agree
SectionAgrees(pk, section_key) ==
    LET rows == SectionRows(sectionData, pk, section_key)
        given == SectionRows(answers, pk, section_key)
        entities == GovernedRows[pk, section_key]
    IN  /\ {given[i].question_key : i \in 1..Len(given)}
              = (IF Len(rows) = 0 THEN {} ELSE BlobKeys(rows[1].data))
        /\ \A i \in 1..Len(given) :
              (Len(rows) > 0 /\ MapHas(rows[1].data.top, given[i].question_key))
                  => \A q \in QuestionsAt(formQuestions, submissions[pk].form_type,
                                          section_key, given[i].question_key) :
                        given[i].slots =
                            SetValue(q.field_type,
                                     EntryAnswer(MapGet(rows[1].data.top,
                                                        given[i].question_key))).slots
        /\ {entities[i].name : i \in 1..Len(entities)} \ {NoText}
              = (IF Len(rows) = 0 THEN {} ELSE BlobNames(rows[1].data, section_key))

\* C8: after every committed create, full replace, partial update, update_question,
\* update_dependents and update_business_owners, for each section of the submission the
\* blob has an entry for a question key exactly when a FormAnswer row for the key
\* exists, the entry's answer is the value the row holds, and the sub-entity rows are
\* the ones the blob's list names.
C8_RepresentationsAgree ==
    Committed(last) => \A section_key \in SectionKeys : SectionAgrees(last.pk, section_key)

\* update_question has committed and the blob of the section still shows, at its top
\* level, another answer than the one the FormAnswer row now holds
C8_BlobStaleAfterUpdateQuestion ==
    /\ last.op = "update_question" /\ last.code = 200
    /\ \E i \in 1..Len(sectionData) :
          /\ sectionData[i].submission = last.pk
          /\ sectionData[i].section_key = last.request.section_key
          /\ sectionData[i].data.hasNested
          /\ MapHas(sectionData[i].data.top, last.request.question_key)
          /\ EntryAnswer(MapGet(sectionData[i].data.top, last.request.question_key))
                # last.request.answer

----------------------------------------------------------------------------
(* Structured sub-entities are replaced *)

\* the names of rows or of list items, in order
Names(rows) == [i \in 1..Len(rows) |-> rows[i].name]

\* a value is a list, or the JSON text of one
IsListed(value) == value.t = "list" \/ (value.t = "str" /\ value.s = JsonArrayText)

\* a committed request has brought a list for the kind a section governs: a full
\* replace or a partial section update whose payload holds the section with its list
SectionListed(response, section_key) ==
    /\ response.op \in {"update", "partial_update", "update_section"}
    /\ response.code = 200
    /\ response.request.hasSections
    /\ MapHas(response.request.sections, section_key)
    /\ LET questions == MapGet(response.request.sections, section_key).questionsAndAnswers
       IN  /\ MapHas(questions, ListKey(section_key))
           /\ IsListed(EntryAnswer(MapGet(questions, ListKey(section_key))))

\* the list it has brought
SectionList(response, section_key) ==
    EntryAnswer(MapGet(MapGet(response.request.sections, section_key).questionsAndAnswers,
                       ListKey(section_key))).l

\* a committed request has brought a list of dependents, on any path
DependentsListed(response) ==
    \/ response.op = "update_dependents" /\ response.code = 200
    \/ SectionListed(response, K_dependents)

\* the list of dependents it has brought
DependentsList(response) ==
    IF response.op = "update_dependents" THEN response.request.items
    ELSE SectionList(response, K_dependents)

\* C9 as stated: after the dependents are updated with a list of n dependents, on any
\* path (full replace, partial section update, update_dependents), the submission has
\* exactly n DependentInfo rows, those of the list.
C9_ExactlyTheListed ==
    DependentsListed(last)
        => Names(RowsOf(dependents, last.pk)) = Names(DependentsList(last))

\* C9: after the dependents are updated with a list, the submission's DependentInfo
\* rows are exactly the items of the list the path accepts, in order: on a full
\* replace every mapping, on a partial section update and on update_dependents every
\* mapping with a first name.  Rows of the previous list are gone.
C9_ExactlyTheAccepted ==
    DependentsListed(last)
        => Names(RowsOf(dependents, last.pk))
              = Names(SelectSeq(DependentsList(last),
                                LAMBDA item : /\ item.isDict
                                              /\ (last.op = "update" \/ item.name # NoText)))

\* a partial section update or update_dependents has put a list with a nameless item
\* in the place of the dependents the submission was created with: one row fewer than
\* the list has items
C9_NamelessSkipped ==
    /\ DependentsListed(last)
    /\ last.op # "update"
    /\ CreatedWith(last.pk, K_dependents)
    /\ Len(DependentsList(last)) = 2
    /\ Names(RowsOf(dependents, last.pk)) = <<<<"Ben">>>>

\* the sections that govern a structured kind
StructuredKeys == {K_dependents, K_ownerInfo, K_incomeExpenses, K_deductions}

\* the names of the named items of a list or of the named rows, in order
NamedOnly(rows) == SelectSeq(Names(rows), LAMBDA name : name # NoText)

\* C10: whenever a full replace or a partial section update brings the governing
\* section of a structured kind (dependents, business owners, vehicles, charitable
\* contributions) with its list, the submission's rows of that kind are afterwards
\* exactly the ones the list describes.
C10_StructuredKindsReplaced ==
    \A section_key \in StructuredKeys :
        SectionListed(last, section_key)
            => NamedOnly(GovernedRows[last.pk, section_key])
                  = NamedOnly(SectionList(last, section_key))

\* a partial section update has brought incomeExpenses with a list of vehicles, and the
\* submission's VehicleInfo rows are not the vehicles of that list
C10_VehiclesNotReplaced ==
    /\ last.op \in {"partial_update", "update_section"}
    /\ SectionListed(last, K_incomeExpenses)
    /\ Names(RowsOf(vehicles, last.pk)) # Names(SectionList(last, K_incomeExpenses))


----------------------------------------------------------------------------
(* Audit trail *)

\* the handlers that write, and the 'action' each gives its FormAuditLog row
MutatingOps ==
    {"create", "update", "partial_update", "update_section", "update_question",
     "update_dependents", "update_business_owners", "update_status"}

ActionKind(op) ==
    CASE op = "create" -> "created"
      [] op = "update" -> "updated"
      [] op = "partial_update" -> "partial_update"
      [] op = "update_section" -> "section_updated"
      [] op = "update_question" -> "question_updated"
      [] op = "update_dependents" -> "dependents_updated"
      [] op = "update_business_owners" -> "business_owners_updated"
      [] op = "update_status" -> "status_updated"

\* the handler answered with a success status
Succeeded(response) == response.code \in {200, 201}

\* the audit log grew by one row, and the rows it had are as they were
OneMoreEntry ==
    /\ Len(auditLog') = Len(auditLog) + 1
    /\ SubSeq(auditLog', 1, Len(auditLog)) = auditLog

\* C11: every successful mutating operation appends exactly one FormAuditLog row for
\* its submission, with the action kind, the acting user, the caller's IP and the
\* caller's user agent, and leaves the earlier rows as they were; an operation that
\* is rejected or fails appends none.
C11_OneFullEntryPerMutation ==
    [][IF last'.op \in MutatingOps /\ Succeeded(last')
       THEN /\ OneMoreEntry
            /\ LET row == auditLog'[Len(auditLog')]
               IN  /\ row.submission = last'.pk
                   /\ row.action = ActionKind(last'.op)
                   /\ row.user = last'.user
                   /\ row.ip_address = ClientIp
                   /\ row.user_agent = UserAgent
       ELSE auditLog' = auditLog]_vars

\* create has committed and its audit row carries neither the IP nor the user agent
C11_CreatedWithoutCaller ==
    /\ last.op = "create" /\ Succeeded(last)
    /\ Len(auditLog) > 0
    /\ LET row == auditLog[Len(auditLog)]
       IN  /\ row.submission = last.pk /\ row.action = "created" /\ row.user = last.user
           /\ row.ip_address = "" /\ row.user_agent = ""

\* the same without the caller's IP and user agent, which holds of every handler
C11_OneEntryPerMutation ==
    [][IF last'.op \in MutatingOps /\ Succeeded(last')
       THEN /\ OneMoreEntry
            /\ LET row == auditLog'[Len(auditLog')]
               IN  /\ row.submission = last'.pk
                   /\ row.action = ActionKind(last'.op)
                   /\ row.user = last'.user
                   /\ last'.op # "create" =>
                        row.ip_address = ClientIp /\ row.user_agent = UserAgent
       ELSE auditLog' = auditLog]_vars

----------------------------------------------------------------------------
(* The typed slots of a FormAnswer *)

\* the slots of a row that are not null
FilledSlots(slots) == {slot \in DOMAIN ClearedSlots : slots[slot] # PyNone}

\* the field_type of the FormQuestion a FormAnswer row belongs to
FieldTypeOf(T, row) ==
    QuestionOf(T, T.submissions[row.submission].form_type, row.section_key,
               row.question_key).field_type

\* set_value leaves all six slots null for this answer: no answer, an empty string, a
\* number that is falsy, a text that is no date, the JSON text null
StoresNothing(field_type, value) ==
    \/ value.t = "none"
    \/ value.t = "str" /\ value.s = NoText
    \/ field_type = "number" /\ ~Truthy(value)
    \/ field_type = "date" /\ value.t = "str" /\ ParseDate(value.s) = PyNone
    \/ field_type = "json" /\ value.t = "str" /\ JsonLoads(value) = [exc |-> "none", val |-> PyNone]

\* C12 (as stated): every FormAnswer row has exactly one of its six typed slots
\* non-null, the one its question's field_type selects.
C12_ExactlyTheTypedSlot ==
    \A i \in 1..Len(answers) :
        FilledSlots(answers[i].slots) = {SlotOf(FieldTypeOf(Tables, answers[i]))}

\* C12 (amended): every FormAnswer row has at most one of its six typed slots non-null,
\* the one its question's field_type selects; after update_question the row of the
\* question has all six null exactly when the answer was null or empty or coerces to
\* null, and the selected slot filled otherwise.
C12_AtMostTheTypedSlot ==
    [][/\ \A i \in 1..Len(answers') :
             FilledSlots(answers'[i].slots) \subseteq {SlotOf(FieldTypeOf(Tables', answers'[i]))}
       /\ (last'.op = "update_question" /\ Succeeded(last')) =>
             LET request == last'.request
                 i == AnswerIndex(answers', last'.pk, request.section_key, request.question_key)
             IN  /\ i # 0
                 /\ FilledSlots(answers'[i].slots) =
                        IF StoresNothing(FieldTypeOf(Tables', answers'[i]), request.answer) THEN {}
                        ELSE {SlotOf(FieldTypeOf(Tables', answers'[i]))}]_vars

\* update_question has stored an empty answer: the row is there with all six slots null
C12_EmptyAnswerStored ==
    /\ last.op = "update_question" /\ Succeeded(last)
    /\ last.request.answer = Str(NoText)
    /\ \E i \in 1..Len(answers) :
          /\ answers[i].submission = last.pk
          /\ answers[i].question_key = last.request.question_key
          /\ FilledSlots(answers[i].slots) = {}

----------------------------------------------------------------------------
(* Sensitive answers *)

\* the FormQuestion a FormAnswer row belongs to
QuestionOfRow(T, row) ==
    QuestionOf(T, T.submissions[row.submission].form_type, row.section_key, row.question_key)

\* C13: a FormAnswer whose question has is_sensitive = true holds a non-empty answer in
\* the encrypted slot only, never in the text slot or another unencrypted slot.
C13_SensitiveOnlyEncrypted ==
    \A i \in 1..Len(answers) :
        QuestionOfRow(Tables, answers[i]).is_sensitive =>
            FilledSlots(answers[i].slots) \subseteq {"encrypted_value"}

\* a signature is stored: its question is sensitive, its field_type is 'signature', and
\* the answer sits in the text slot as it was typed
C13_SignatureInTextSlot ==
    \E i \in 1..Len(answers) :
        /\ QuestionOfRow(Tables, answers[i]).is_sensitive
        /\ QuestionOfRow(Tables, answers[i]).field_type = "signature"
        /\ answers[i].slots.text_value = Str(<<"Jane">>)
        /\ answers[i].slots.encrypted_value = PyNone

\* the same for the questions whose field_type is 'encrypted', which holds
C13_EncryptedTypeOnlyEncrypted ==
    \A i \in 1..Len(answers) :
        QuestionOfRow(Tables, answers[i]).field_type = "encrypted" =>
            /\ QuestionOfRow(Tables, answers[i]).is_sensitive
            /\ FilledSlots(answers[i].slots) \subseteq {"encrypted_value"}

----------------------------------------------------------------------------
(* The Field Type Classifier on its own: one question arrives in a create   *)
(* on an empty database, so its FormQuestion is new and takes the type the  *)
(* classifier returns.                                                     *)

ClassifyKeys ==
    {<<"ssn">>, <<"spouse", "SSN">>, <<"ein", "Signature">>, <<"signature", "Date">>,
     <<"taxpayer", "signature">>, <<"has", "Spouse">>, <<"has", "spouse">>,
     <<"date", "Of", "Birth">>, <<"start", "Date">>, <<"total", "Miles">>,
     <<"dependents">>, <<"first", "Name">>}

ClassifyAnswers ==
    {Str(<<"Jane">>), Str(<<"Yes">>), Str(<<"4", "2">>), Str(<<"4", ".", "2">>), Str(NoText),
     PyInt(<<"7">>), PyBool(TRUE), PyList(<<Ann>>), PyNone}

\* a create whose sections hold one question
ClassifyRequests ==
    {FullRequest(<< <<K_basicInfo, Section(<< <<key, Wrapped(<<"Q">>, answer)>> >>)>> >>) :
        key \in ClassifyKeys, answer \in ClassifyAnswers}

\* the request is in flight
InitClassify ==
    /\ formTypes = {}
    /\ formSections = {}
    /\ formQuestions = {}
    /\ submissions = [pk \in SubmissionIds |-> NoSubmission]
    /\ sectionData = <<>>
    /\ answers = <<>>
    /\ dependents = <<>>
    /\ businessOwners = <<>>
    /\ vehicles = <<>>
    /\ contributions = <<>>
    /\ auditLog = <<>>
    /\ nextLogId = 1
    /\ crmUp = TRUE
    /\ crmCalls = <<>>
    /\ last \in {Response("arrived", "alice", 1, 0, "none", request) : request \in ClassifyRequests}
    /\ InitBeyond

\* POST submissions/ with the request in flight
CreateArrived == last.op = "arrived" /\ Create(last.user, last.request)

SpecClassify == InitClassify /\ [][CreateArrived]_vars

\* the rules of the classifier in their order, each with the type it gives
RuleOrder == <<"encrypted", "signature", "boolean", "date", "number", "json", "text">>

\* the rule of a type matches the key and the answer
RuleMatches(type, question_key, answer) ==
    CASE type = "encrypted" ->
            \E field \in sensitive_fields : Contains(Lower(question_key), field)
      [] type = "signature" ->
            \E field \in signature_fields : Contains(Lower(question_key), field)
      [] type = "boolean" ->
            \/ question_key \in boolean_fields
            \/ Lower(PyStr(answer)) \in {<<"yes">>, <<"no">>, <<"true">>, <<"false">>}
      [] type = "date" ->
            question_key \in date_fields \/ Contains(Lower(question_key), <<"date">>)
      [] type = "number" ->
            \/ question_key \in number_fields
            \/ answer.t \in {"int", "float", "bool"}
            \/ IsDigit(RemoveDots(PyStr(answer)))
      [] type = "json" -> question_key \in json_fields \/ answer.t \in {"list", "dict"}
      [] type = "text" -> TRUE

\* the type of the first rule that matches
FirstMatch(question_key, answer) ==
    RuleOrder[CHOOSE i \in 1..Len(RuleOrder) :
                /\ RuleMatches(RuleOrder[i], question_key, answer)
                /\ \A j \in 1..(i - 1) : ~RuleMatches(RuleOrder[j], question_key, answer)]

\* the one question of the request in flight: <<key, answer>>
Classified ==
    LET entry == last.request.sections[1][2].questionsAndAnswers[1]
    IN  <<entry[1], entry[2].answer>>

\* C14: for every key and answer the classifier returns the type of the first rule that
\* matches in the order encrypted, signature, boolean, date, number, json, text, and the
\* FormQuestion a create makes for a new key has that type; a key that matches two
\* rules gets the type of the earlier one.
C14_FirstMatchingRule ==
    /\ DetermineFieldType(Classified[1], Classified[2]) = FirstMatch(Classified[1], Classified[2])
    /\ (last.op = "create" /\ Succeeded(last)) =>
          QuestionOf(Tables, "personal", K_basicInfo, Classified[1]).field_type
              = FirstMatch(Classified[1], Classified[2])

\* "signatureDate" matches the signature rule and the date rule, and the question that
\* was created for it is of type 'signature'
C14_SignatureDateIsSignature ==
    /\ last.op = "create" /\ Succeeded(last)
    /\ Classified[1] = <<"signature", "Date">>
    /\ RuleMatches("signature", Classified[1], Classified[2])
    /\ RuleMatches("date", Classified[1], Classified[2])
    /\ QuestionOf(Tables, "personal", K_basicInfo, Classified[1]).field_type = "signature"

----------------------------------------------------------------------------
(* update_question and the section blob *)

\* the FormSectionData blob of the section a committed update_question named
QuestionBlob(rows, response) ==
    SectionRows(rows, response.pk, response.request.section_key)[1].data

\* C15: after update_question succeeds, the section's FormSectionData blob holds the
\* new answer under the entry for question_key at the place where the materializers
\* store the entries of a section, the top level of the blob, so that a read of the
\* section returns the new answer.
C15_BlobShowsNewAnswer ==
    (last.op = "update_question" /\ Succeeded(last)) =>
        /\ Len(SectionRows(sectionData, last.pk, last.request.section_key)) = 1
        /\ MapHas(QuestionBlob(sectionData, last).top, last.request.question_key)
        /\ EntryAnswer(MapGet(QuestionBlob(sectionData, last).top, last.request.question_key))
              = last.request.answer

\* update_question has committed: the new answer is in the blob under the key
\* 'questionsAndAnswers', and the entry of the question at the top level, where the
\* materializer put it, still holds the answer it had
C15_NewAnswerNestedOldOnTop ==
    /\ last.op = "update_question" /\ Succeeded(last)
    /\ LET data == QuestionBlob(sectionData, last)
           question_key == last.request.question_key
       IN  /\ data.hasNested /\ MapHas(data.nested, question_key)
           /\ MapGet(data.nested, question_key).answer = last.request.answer
           /\ MapHas(data.top, question_key)
           /\ MapGet(data.top, question_key).answer = Str(<<"Jane">>)
           /\ last.request.answer = Str(<<"Bob">>)

----------------------------------------------------------------------------
(* The frame of update_question *)

\* a row of the (submission, section, question) a request names
IsTarget(row, response) ==
    /\ row.submission = response.pk
    /\ row.section_key = response.request.section_key
    /\ row.question_key = response.request.question_key

\* the entries of a map under the keys other than one
Others(m, k) == SelectSeq(m, LAMBDA pair : pair[1] # k)

\* C16: update_question leaves every other FormAnswer row, every other question's
\* entry in the blob of its section, the FormSectionData of every other section and
\* all dependents, business owners, vehicles and charitable contributions as they were.
C16_UpdateQuestionFrame ==
    [][last'.op = "update_question" =>
         /\ Len(answers') >= Len(answers)
         /\ \A i \in 1..Len(answers) :
               ~IsTarget(answers[i], last') => answers'[i] = answers[i]
         /\ \A i \in (Len(answers) + 1)..Len(answers') : IsTarget(answers'[i], last')
         /\ Len(sectionData') >= Len(sectionData)
         /\ \A i \in 1..Len(sectionData) :
               IF /\ sectionData[i].submission = last'.pk
                  /\ sectionData[i].section_key = last'.request.section_key
               THEN /\ Others(sectionData'[i].data.top, last'.request.question_key)
                          = Others(sectionData[i].data.top, last'.request.question_key)
                    /\ Others(sectionData'[i].data.nested, last'.request.question_key)
                          = Others(sectionData[i].data.nested, last'.request.question_key)
               ELSE sectionData'[i] = sectionData[i]
         /\ \A i \in (Len(sectionData) + 1)..Len(sectionData') :
               /\ sectionData'[i].submission = last'.pk
               /\ sectionData'[i].section_key = last'.request.section_key
         /\ UNCHANGED <<dependents, businessOwners, vehicles, contributions>>]_vars

\* update_question has stored a new first name beside the SSN answer, the top-level
\* SSN entry of the blob, the blob of the dependents section and the dependents rows
C16_UpdatedBesideOthers ==
    /\ last.op = "update_question" /\ Succeeded(last)
    /\ last.request.question_key = K_firstName
    /\ \E i \in 1..Len(answers) :
          IsTarget(answers[i], last) /\ answers[i].slots.text_value = Str(<<"Bob">>)
    /\ \E i \in 1..Len(answers) :
          answers[i].submission = last.pk /\ answers[i].question_key = K_ssn
    /\ MapHas(QuestionBlob(sectionData, last).top, K_ssn)
    /\ Len(SectionRows(sectionData, last.pk, K_dependents)) = 1
    /\ Len(RowsOf(dependents, last.pk)) = 2

----------------------------------------------------------------------------
(* Unknown sections and questions *)

\* no row of any table is written
NothingWritten ==
    UNCHANGED <<formTypes, formSections, formQuestions, submissions, sectionData, answers,
                dependents, businessOwners, vehicles, contributions, auditLog, nextLogId>>

\* an update_question that reaches its lookups and names a section or a question the
\* form type of the submission does not have
NamesUnknown(user, pk, request) ==
    /\ GetObjectFinds(user, pk)
    /\ request.section_key # NoText /\ request.question_key # NoText
    /\ \/ ~SectionExists(Tables, submissions[pk].form_type, request.section_key)
       \/ ~QuestionExists(Tables, submissions[pk].form_type, request.section_key,
                          request.question_key)

\* update_question answers an unknown section or question with 404 and writes nothing
UnknownQuestionNotFound ==
    \A pk \in Created, r \in QuestionRequests :
        (NamesUnknown(r[1], pk, r[2]) /\ UpdateQuestion(r[1], pk, r[2]))
            => (last'.code = 404 /\ NothingWritten)

\* the form type of the submission has every question a sections map names
AllNamed(T, pk, sections) ==
    \A i \in 1..Len(sections) :
        \A k \in 1..Len(sections[i][2].questionsAndAnswers) :
            QuestionExists(T, T.submissions[pk].form_type, sections[i][1],
                           sections[i][2].questionsAndAnswers[k][1])

\* C17 (as stated): update_question, update_section and partial_update answer a
\* request that names a section or question unknown for the form type with 404 and
\* write nothing, so a request of theirs that succeeds named only known ones.
C17_UnknownIsNotFound ==
    [][/\ UnknownQuestionNotFound
       /\ (last'.op \in {"update_section", "partial_update"} /\ Succeeded(last'))
             => AllNamed(Tables, last'.pk, last'.request.sections)]_vars

\* C17 (amended): update_question answers an unknown section or question with 404 and
\* writes nothing; update_section and partial_update never answer 404 to a submission
\* they can see, and when they succeed every section and question their payload names
\* exists afterwards, created on the way where it was unknown.
C17_UnknownNotFoundOrCreated ==
    [][/\ UnknownQuestionNotFound
       /\ (last'.op \in {"update_section", "partial_update"} /\ Succeeded(last'))
             => /\ AllNamed(Tables', last'.pk, last'.request.sections)
                /\ \A i \in 1..Len(last'.request.sections) :
                      SectionExists(Tables', submissions[last'.pk].form_type,
                                    last'.request.sections[i][1])
       /\ (last'.op \in {"update_section", "partial_update"} /\ last'.code = 404)
             => ~GetObjectFinds(last'.user, last'.pk)]_vars

\* update_section has succeeded on a section the form type did not have: the section
\* and its question were created with the rows of the submission
C17_UnknownSectionCreated ==
    /\ last.op = "update_section" /\ Succeeded(last)
    /\ last.request.section_key = K_incomeExpenses
    /\ \E r \in formSections : r.section_key = K_incomeExpenses /\ r.order = 2
    /\ QuestionExists(Tables, submissions[last.pk].form_type, K_incomeExpenses, K_vehicles)
    /\ Len(SectionRows(sectionData, last.pk, K_incomeExpenses)) = 1

----------------------------------------------------------------------------
(* Requests on another user's submission *)

\* the response answers a non-staff user's request on a submission of another user
OnAnothersSubmission(response) ==
    /\ response.op \in MutatingOps \ {"create"}
    /\ ~IsStaff(response.user)
    /\ submissions[response.pk].exists
    /\ submissions[response.pk].user # response.user

\* C18: every mutating operation a non-staff user invokes on a submission owned by
\* another user is rejected with 403 and leaves the submission and its audit log as
\* they were.
C18_ForeignMutationForbidden ==
    [][OnAnothersSubmission(last')
          => (last'.code = 403 /\ UNCHANGED <<submissions, auditLog>>)]_vars

\* alice has asked for update_status on a submission root owns and was answered 404
C18_ForeignAnsweredNotFound ==
    /\ OnAnothersSubmission(last)
    /\ last.op = "update_status" /\ last.user = "alice"
    /\ submissions[last.pk].user = "root"
    /\ last.code = 404

\* the same with 404 for 403, which holds: nothing at all is written
C18_ForeignMutationNotFound ==
    [][OnAnothersSubmission(last') => (last'.code = 404 /\ NothingWritten)]_vars

----------------------------------------------------------------------------
(* The status of a submission and the CRM: create, full replace, partial    *)
(* update and update_status with small payloads, so that a status can      *)
(* leave 'submitted' and come back, while the CRM goes down and up.         *)

\* a full replace that carries a status beside its sections
FullRequestWithStatus(sections, status) ==
    Request("personal", TRUE, sections, NoText, NoText, PyNone, NoItems, status, Absent)

NotifySections == << <<K_basicInfo, BasicYes>> >>

NotifyCreates == {<<"alice", FullRequest(NotifySections)>>}

NotifyUpdates ==
    {<<"alice", FullRequest(NotifySections)>>,
     <<"alice", FullRequestWithStatus(NotifySections, "submitted")>>}

NotifyPatches ==
    {<<"alice", PatchStatus(status)>> : status \in {"draft", "submitted"}}
    \cup {<<"alice", PatchNotes("checked")>>}

NotifyStatuses == {<<"alice", PatchStatus(status)>> : status \in {"processing", "submitted"}}

NotifyArrives == nextLogId <= MaxNotifyLogId

\* the CRM goes down, or comes up again
CrmFlips ==
    /\ crmUp' = ~crmUp
    /\ UNCHANGED <<formTypes, formSections, formQuestions, submissions, sectionData, answers,
                   dependents, businessOwners, vehicles, contributions, auditLog, nextLogId,
                   crmCalls, last, beyond>>

NextNotify ==
    \/ \E r \in NotifyCreates : NotifyArrives /\ CreateView(r[1], r[2])
    \/ \E pk \in Created, r \in NotifyUpdates : NotifyArrives /\ UpdateView(r[1], pk, r[2])
    \/ \E pk \in Created, r \in NotifyPatches :
          NotifyArrives /\ PartialUpdateView(r[1], pk, r[2])
    \/ \E pk \in Created, r \in NotifyStatuses :
          NotifyArrives /\ UpdateStatusView(r[1], pk, r[2])
    \/ CrmFlips

SpecNotify == Init /\ [][NextNotify]_vars

\* the step handles a request
RequestStep == crmUp' = crmUp

\* the "form submitted" notifications among the calls made to the CRM
SubmittedCalls(calls) ==
    SelectSeq(calls, LAMBDA c : c.tag \in {TagPersonalSubmitted, TagBusinessSubmitted})

\* the stored status of a submission
StatusOf(rows, pk) == IF rows[pk].exists THEN rows[pk].status ELSE "none"

\* the request has brought the stored status of its submission to 'submitted'
ReachedSubmitted ==
    /\ StatusOf(submissions, last'.pk) # "submitted"
    /\ StatusOf(submissions', last'.pk) = "submitted"

\* C19: an operation notifies the CRM exactly when it changes the stored status of the
\* submission from a non-submitted value to 'submitted': with one call if it does
\* (create, partial update, update_status), and with none if the stored status is not
\* 'submitted' afterwards or was 'submitted' before.  Every tag sent counts as the
\* notification, the one create sends included.
C19_NotifiedExactlyOnSubmitted ==
    [][(RequestStep /\ last'.op \in MutatingOps)
          => Len(crmCalls') = (IF ReachedSubmitted THEN 1 ELSE 0)]_vars

\* update_status has brought the stored status from 'draft' to 'submitted' and no call
\* was made to the CRM
C19_SubmittedUnnotified ==
    /\ last.op = "update_status" /\ Succeeded(last)
    /\ submissions[last.pk].status = "submitted"
    /\ auditLog[Len(auditLog)].changes.updated_fields[1].old = "draft"
    /\ crmCalls = <<>>

\* a full replace that carried status 'submitted' has sent the notification, and the
\* stored status of the submission is 'draft' as before
C19_NotifiedWithoutSubmitting ==
    /\ last.op = "update" /\ Succeeded(last)
    /\ last.request.status = "submitted"
    /\ submissions[last.pk].status = "draft"
    /\ Len(SubmittedCalls(crmCalls)) = 1

\* the same for partial_update alone, which holds
C19_PartialUpdateNotifies ==
    [][(RequestStep /\ last'.op = "partial_update")
          => Len(SubmittedCalls(crmCalls')) = (IF ReachedSubmitted THEN 1 ELSE 0)]_vars

\* C20: when a call to the CRM fails during create, full replace or partial update, the
\* operation does not fail and nothing is rolled back: the caller gets the success
\* response, and the submission and the audit entry of the operation are committed.
C20_CrmFailureContained ==
    [][(/\ RequestStep
        /\ last'.op \in {"create", "update", "partial_update"}
        /\ \E i \in 1..Len(crmCalls') : ~crmCalls'[i].delivered)
          => /\ Succeeded(last') /\ last'.exc = "none"
             /\ submissions'[last'.pk].exists
             /\ OneMoreEntry
             /\ auditLog'[Len(auditLog')].submission = last'.pk
             /\ auditLog'[Len(auditLog')].action = ActionKind(last'.op)]_vars

\* a partial update has brought the status to 'submitted' while the CRM was down: the
\* notification failed, the status and the audit entry are stored, the answer is 200
C20_CommittedWhileCrmDown ==
    /\ last.op = "partial_update" /\ last.code = 200
    /\ Len(crmCalls) = 1 /\ ~crmCalls[1].delivered
    /\ crmCalls[1].tag = TagPersonalSubmitted
    /\ submissions[last.pk].status = "submitted"
    /\ auditLog[Len(auditLog)].action = "partial_update"

----------------------------------------------------------------------------
(* Two full replaces of one submission at the same time.  The database is  *)
(* PostgreSQL at READ COMMITTED: a statement sees the rows committed before *)
(* it starts and the writes of its own transaction, an UPDATE waits for the *)
(* transaction that updated the row before it, and a DELETE removes the     *)
(* rows its snapshot showed.                                                *)

\* submissions that are created before the two transactions open
MaxRaceSubmissions == 1

\* the child rows of a submission, table by table
ChildRows(T, pk) ==
    [sectionData |-> RowsOf(T.sectionData, pk), answers |-> RowsOf(T.answers, pk),
     dependents |-> RowsOf(T.dependents, pk), businessOwners |-> RowsOf(T.businessOwners, pk),
     vehicles |-> RowsOf(T.vehicles, pk), contributions |-> RowsOf(T.contributions, pk)]

\* the rows that are left when a DELETE removes the rows its snapshot showed
Without(rows, gone) == SelectSeq(rows, LAMBDA r : \A i \in 1..Len(gone) : gone[i] # r)

\* the tables as the statements after the DELETEs see them
AfterDeletes(T, gone) ==
    [T EXCEPT !.sectionData = Without(@, gone.sectionData),
              !.answers = Without(@, gone.answers),
              !.dependents = Without(@, gone.dependents),
              !.businessOwners = Without(@, gone.businessOwners),
              !.vehicles = Without(@, gone.vehicles),
              !.contributions = Without(@, gone.contributions)]

\* the transactions that are open
InFlight == {t \in TxnIds : txns[t].pc \in {"open", "saved", "cleared"}}

\* a variant in which submission.save() does not wait for the row
RowLocked_Never(t, pk) == FALSE

\* submission.save() in _update_submission: the UPDATE of the TaxFormSubmission row
\* waits while another open transaction has updated the row
RowLocked(t, pk) ==
    \E u \in TxnIds \ {t} : txns[u].pc \in {"saved", "cleared"} /\ txns[u].pk = pk

\* the tables and the response of a step of a transaction
Step(T, response) ==
    /\ formTypes' = T.formTypes
    /\ formSections' = T.formSections
    /\ formQuestions' = T.formQuestions
    /\ submissions' = T.submissions
    /\ sectionData' = T.sectionData
    /\ answers' = T.answers
    /\ dependents' = T.dependents
    /\ businessOwners' = T.businessOwners
    /\ vehicles' = T.vehicles
    /\ contributions' = T.contributions
    /\ auditLog' = T.auditLog
    /\ nextLogId' = T.nextLogId
    /\ crmCalls' = T.crmCalls
    /\ last' = response
    /\ UNCHANGED <<crmUp, surveys, profiles, column>>

\* update, up to transaction.atomic(): get_object(), the permission check, is_valid()
OpenReplace(t, user, pk, request) ==
    /\ txns[t].pc = "idle"
    /\ GetObjectFinds(user, pk) /\ ~PermissionDenied(user, pk)
    /\ txns' = [txns EXCEPT ![t] = [NoTxn EXCEPT !.pc = "open", !.user = user, !.pk = pk,
                                                 !.request = request,
                                                 !.met = InFlight \ {t}]]
    /\ UNCHANGED <<formTypes, formSections, formQuestions, submissions, sectionData, answers,
                   dependents, businessOwners, vehicles, contributions, auditLog, nextLogId,
                   crmUp, crmCalls, last, surveys, profiles, column>>

\* _update_submission: submission.save()
SaveRow(t) ==
    /\ txns[t].pc = "open"
    /\ ~RowLocked(t, txns[t].pk)
    /\ txns' = [txns EXCEPT ![t].pc = "saved"]
    /\ UNCHANGED <<formTypes, formSections, formQuestions, submissions, sectionData, answers,
                   dependents, businessOwners, vehicles, contributions, auditLog, nextLogId,
                   crmUp, crmCalls, last, surveys, profiles, column>>

\* _update_submission: the six delete() calls
ClearRows(t) ==
    /\ txns[t].pc = "saved"
    /\ txns' = [txns EXCEPT ![t].pc = "cleared", ![t].deleted = ChildRows(Tables, txns[t].pk)]
    /\ UNCHANGED <<formTypes, formSections, formQuestions, submissions, sectionData, answers,
                   dependents, businessOwners, vehicles, contributions, auditLog, nextLogId,
                   crmUp, crmCalls, last, surveys, profiles, column>>

\* update after the deletes: _process_section for every section, the tag, the audit entry
ReplaceTxn(T, V, user, pk, request) ==
    LET T1 == ProcessSections(V, pk, T.submissions[pk].form_type, request.sections)
        T2 == SubmittedTag(T1, T.submissions[pk].status, NewStatus(T, pk, request),
                           T.submissions[pk].user, T.submissions[pk].form_type)
    IN  AuditLogCreate(T2, pk, "updated", user,
                       [NoChanges EXCEPT !.sections = KeyList(request.sections)],
                       ClientIp, UserAgent)

\* the rest of the transaction and its end: the commit, or the rollback on an exception
CompleteReplace(t) ==
    /\ txns[t].pc = "cleared"
    /\ LET x == txns[t]
           T == Atomic(Tables, ReplaceTxn(Tables, AfterDeletes(Tables, x.deleted),
                                          x.user, x.pk, x.request))
       IN  /\ Step(T, Response("update", x.user, x.pk, IF T.exc = "none" THEN 200 ELSE 500,
                               T.exc, x.request))
           /\ txns' = [txns EXCEPT ![t].pc = "done",
                                   ![t].outcome = IF T.exc = "none" THEN "committed"
                                                  ELSE "aborted"]

\* the payloads of the two transactions and of the create before them
RaceRequests ==
    {<<"alice", FullRequest(sections)>> :
        sections \in { << <<K_basicInfo, BasicJane>>, <<K_dependents, DepsAnnBen>> >>,
                       << <<K_basicInfo, BasicDigits>> >>,
                       << <<K_dependents, DepsUndated>> >>,
                       << <<K_incomeExpenses, VehiclesCar>>, <<K_deductions, CharitiesRedCross>> >> }}

\* the submission is created before the transactions open
RaceArrives == Cardinality(Created) < MaxRaceSubmissions /\ \A t \in TxnIds : txns[t].pc = "idle"

NextRace ==
    \/ \E r \in RaceRequests : RaceArrives /\ CreateView(r[1], r[2])
    \/ \E t \in TxnIds, pk \in Created, r \in RaceRequests : OpenReplace(t, r[1], pk, r[2])
    \/ \E t \in TxnIds : SaveRow(t)
    \/ \E t \in TxnIds : ClearRows(t)
    \/ \E t \in TxnIds : CompleteReplace(t)

SpecRace == Init /\ [][NextRace]_vars

----------------------------------------------------------------------------
(* Concurrent full replaces *)

\* both unique_together constraints hold of the rows of a submission
ConstraintsHold(pk) ==
    /\ \A i, j \in 1..Len(sectionData) :
          (/\ sectionData[i].submission = pk /\ sectionData[j].submission = pk
           /\ sectionData[i].section_key = sectionData[j].section_key) => i = j
    /\ \A i, j \in 1..Len(answers) :
          (/\ answers[i].submission = pk /\ answers[j].submission = pk
           /\ answers[i].section_key = answers[j].section_key
           /\ answers[i].question_key = answers[j].question_key) => i = j

\* the rows of the submission are the rows a full replace with this payload leaves
WholePayload(pk, request) ==
    ChildRows(Tables, pk) = ChildRows(UpdateSubmission(Tables, pk, request), pk)

\* the transactions on a submission that committed
CommittedOn(pk) == {t \in TxnIds : txns[t].pk = pk /\ txns[t].outcome = "committed"}

\* C21: when two full replaces of one submission run at the same time, each in its own
\* transaction, every committed state satisfies both uniqueness constraints and is the
\* complete materialization of the payload of one of the two: never a mixture of
\* sections of both payloads.
C21_OneWholePayload ==
    \A pk \in Created :
        CommittedOn(pk) # {} =>
            /\ ConstraintsHold(pk)
            /\ \E t \in CommittedOn(pk) : WholePayload(pk, txns[t].request)

\* two transactions that met on one submission with payloads of different sections,
\* and both committed
C21_BothCommittedAfterMeeting ==
    /\ txns[1].outcome = "committed" /\ txns[2].outcome = "committed"
    /\ txns[1].pk = txns[2].pk
    /\ txns[2].met = {1}
    /\ KeyList(txns[1].request.sections) = <<K_basicInfo>>
    /\ KeyList(txns[2].request.sections) = <<K_incomeExpenses, K_deductions>>
    /\ \E i \in 1..Len(vehicles) : vehicles[i].submission = txns[2].pk
    /\ RowsOf(answers, txns[2].pk) # <<>>

----------------------------------------------------------------------------
(* A structured sub-payload that is no JSON *)

\* a handler that materializes the sections of its payload has run
Materialized(response) ==
    /\ response.op \in {"create", "update", "partial_update", "update_section"}
    /\ response.request.hasSections

\* the structured sections of a payload whose list is a text that is no JSON
BadJsonSections(request) ==
    {section_key \in StructuredKeys :
        /\ MapHas(request.sections, section_key)
        /\ LET questions == MapGet(request.sections, section_key).questionsAndAnswers
           IN  /\ MapHas(questions, ListKey(section_key))
               /\ LET value == EntryAnswer(MapGet(questions, ListKey(section_key)))
                  IN  value.t = "str" /\ JsonLoads(value).exc # "none"}

\* the FormSectionData row and the FormAnswer rows of a section of the payload are written
SectionWritten(T, pk, request, section_key) ==
    LET questions == MapGet(request.sections, section_key).questionsAndAnswers
        rows == SectionRows(T.sectionData, pk, section_key)
    IN  /\ Len(rows) = 1
        /\ rows[1].data = Blob(questions)
        /\ MapKeys(questions) \subseteq
              {r.question_key : r \in {SectionRows(T.answers, pk, section_key)[i] :
                                          i \in 1..Len(SectionRows(T.answers, pk, section_key))}}

\* C22 as stated: when the structured sub-payload of a section is a string that is no
\* valid JSON, the section's FormSectionData and FormAnswer rows are still written, the
\* operation commits, and the existing sub-entity rows of that kind are as they were
\* before the operation.
C22_BadJsonKeepsExistingRows ==
    [][\A section_key \in StructuredKeys :
          (Materialized(last') /\ section_key \in BadJsonSections(last'.request)) =>
              /\ Succeeded(last')
              /\ SectionWritten(Tables', last'.pk, last'.request, section_key)
              /\ GovernedRows'[last'.pk, section_key] = GovernedRows[last'.pk, section_key]]_vars

\* C22, amended: the rows are written and the operation commits; create, partial_update
\* and update_section leave the existing sub-entity rows of that kind as they were, and
\* after a full replace, which has deleted them with every other child row, there is none.
C22_BadJsonSkipsPopulation ==
    [][\A section_key \in StructuredKeys :
          (Materialized(last') /\ section_key \in BadJsonSections(last'.request)) =>
              /\ Succeeded(last')
              /\ SectionWritten(Tables', last'.pk, last'.request, section_key)
              /\ GovernedRows'[last'.pk, section_key] =
                    (IF last'.op = "update" THEN <<>> ELSE GovernedRows[last'.pk, section_key])]_vars

\* a partial section update whose owners are no JSON has committed beside the owner
\* rows of the create
C22_BadJsonBesideOwners ==
    /\ last.op \in {"partial_update", "update_section"}
    /\ Succeeded(last)
    /\ K_ownerInfo \in BadJsonSections(last.request)
    /\ RowsOf(businessOwners, last.pk) # <<>>
    /\ SectionWritten(Tables, last.pk, last.request, K_ownerInfo)

----------------------------------------------------------------------------
(* List items without their identifying field *)

\* the kinds whose rows need an identifying field: first name, first name, description
NamedKinds == {K_dependents, K_ownerInfo, K_incomeExpenses}

\* the payload brings the section of a kind with its list
ListBrought(request, section_key) ==
    /\ request.hasSections
    /\ MapHas(request.sections, section_key)
    /\ LET questions == MapGet(request.sections, section_key).questionsAndAnswers
       IN  /\ MapHas(questions, ListKey(section_key))
           /\ IsListed(EntryAnswer(MapGet(questions, ListKey(section_key))))

\* a committed request has populated the rows of a kind from a list
Populated(response, section_key) ==
    /\ Succeeded(response)
    /\ \/ /\ response.op \in {"create", "update"}
          /\ ListBrought(response.request, section_key)
       \/ /\ response.op \in {"partial_update", "update_section"}
          /\ section_key \in {K_dependents, K_ownerInfo}
          /\ ListBrought(response.request, section_key)
       \/ response.op = "update_dependents" /\ section_key = K_dependents
       \/ response.op = "update_business_owners" /\ section_key = K_ownerInfo

\* the list it was populated from
PopulatedFrom(response, section_key) ==
    IF response.op \in {"update_dependents", "update_business_owners"}
    THEN response.request.items
    ELSE SectionList(response, section_key)

\* the names of the items that have their identifying field, in order
IdentifiedOnly(items) ==
    Names(SelectSeq(items, LAMBDA item : item.isDict /\ item.name # NoText))

\* C23: on every path that populates sub-entities (create, full replace, partial section
\* update, update_dependents, update_business_owners) a list item without its
\* identifying field is skipped: the rows of the kind are afterwards those of the items
\* that have one, all of them, and no row is created for an item without.
C23_UnidentifiedSkipped ==
    [][\A section_key \in NamedKinds :
          Populated(last', section_key) =>
              Names(GovernedRows'[last'.pk, section_key])
                  = IdentifiedOnly(PopulatedFrom(last', section_key))]_vars

\* a create has committed a dependent row without a first name
C23_CreatedWithoutFirstName ==
    /\ last.op = "create" /\ Populated(last, K_dependents)
    /\ \E i \in 1..Len(PopulatedFrom(last, K_dependents)) :
          PopulatedFrom(last, K_dependents)[i].name = NoText
    /\ \E i \in 1..Len(dependents) :
          dependents[i].submission = last.pk /\ dependents[i].name = NoText

\* the paths of views.py skip the items without a first name
C23_ViewPathsSkip ==
    [][\A section_key \in NamedKinds :
          (Populated(last', section_key) /\ last'.op \notin {"create", "update"}) =>
              Names(GovernedRows'[last'.pk, section_key])
                  = IdentifiedOnly(PopulatedFrom(last', section_key))]_vars

----------------------------------------------------------------------------
(* One value through an EncryptedField column.  The column holds what       *)
(* get_prep_value wrote, or what was there before: plain text, a token      *)
(* written under a retired key, a damaged token, NULL.                      *)

\* the longest text, in fragments
MaxTextLen == 2

\* the fragments of the texts
TextFragments == {"123-45-6789", "gAAAAA", " ", "="}

\* the texts
Texts == UNION {[1..n -> TextFragments] : n \in 0..MaxTextLen}

\* what a column may hold that get_prep_value did not write under the current key
ForeignStored ==
    {PyNone} \cup {Str(text) : text \in Texts}
    \cup {FernetEncrypt(RetiredKey, text) : text \in Texts}
    \cup {[FernetEncrypt(key, text) EXCEPT !.intact = FALSE] :
              key \in {ENCRYPTION_KEY, RetiredKey}, text \in Texts}

InitColumn ==
    /\ formTypes = {}
    /\ formSections = {}
    /\ formQuestions = {}
    /\ submissions = [pk \in SubmissionIds |-> NoSubmission]
    /\ sectionData = <<>>
    /\ answers = <<>>
    /\ dependents = <<>>
    /\ businessOwners = <<>>
    /\ vehicles = <<>>
    /\ contributions = <<>>
    /\ auditLog = <<>>
    /\ nextLogId = 1
    /\ crmUp = TRUE
    /\ crmCalls = <<>>
    /\ last = Response("none", "", 0, 0, "none", NoRequest)
    /\ txns = [t \in TxnIds |-> NoTxn]
    /\ surveys = [id \in SurveyIds |-> NoSurvey]
    /\ profiles = [u \in Accounts |-> IF u = "root" THEN RootProfile ELSE NoProfile]
    /\ \/ \E text \in Texts : column = [NoColumn EXCEPT !.step = "given", !.given = Str(text)]
       \/ \E v \in ForeignStored : column = [NoColumn EXCEPT !.step = "found", !.stored = v]

\* the rest of the state stays
ColumnOnly ==
    UNCHANGED <<formTypes, formSections, formQuestions, submissions, sectionData, answers,
                dependents, businessOwners, vehicles, contributions, auditLog, nextLogId,
                crmUp, crmCalls, last, txns, surveys, profiles>>

\* save(): get_prep_value
Prepare ==
    /\ column.step = "given"
    /\ column' = [column EXCEPT !.step = "written", !.stored = GetPrepValue(column.given)]
    /\ ColumnOnly

\* the row is loaded: from_db_value
Load ==
    /\ column.step \in {"written", "found"}
    /\ column' = [column EXCEPT !.step = "read of " \o @, !.exc = FromDb(column.stored).exc,
                                !.read = FromDb(column.stored).val]
    /\ ColumnOnly

\* decrypt_value(stored)
Decrypt ==
    /\ column.step \in {"written", "found"}
    /\ column' = [column EXCEPT !.step = "read of " \o @, !.exc = DecryptValue(column.stored).exc,
                                !.read = DecryptValue(column.stored).val]
    /\ ColumnOnly

NextColumn == Prepare \/ Load \/ Decrypt

SpecColumn == InitColumn /\ [][NextColumn]_vars

----------------------------------------------------------------------------
(* Reading an encrypted value *)

\* a stored value is ciphertext that is valid under the current key
ValidCiphertext(v) == FernetDecrypt(ENCRYPTION_KEY, v).exc = "none"

\* C24: reading an encrypted value never raises: decrypt(encrypt(x)) equals x for every
\* string x, and decrypting a stored string that is not valid ciphertext under the
\* current key returns that string unchanged.
C24_ReadNeverRaises ==
    /\ column.exc = "none"
    /\ column.step = "read of written" => column.read = column.given
    /\ (column.step = "read of found" /\ ~ValidCiphertext(column.stored))
          => column.read = column.stored

\* a token written under the retired key has been read back as it is stored
C24_RetiredTokenReadBack ==
    /\ column.step = "read of found"
    /\ column.stored = FernetEncrypt(RetiredKey, <<"123-45-6789">>)
    /\ column.read = column.stored

----------------------------------------------------------------------------
(* The two materializers side by side *)

\* the submission has no row for the section, nor of the kind the section governs
NoRowsFor(pk, section_key) ==
    /\ SectionRows(sectionData, pk, section_key) = <<>>
    /\ SectionRows(answers, pk, section_key) = <<>>
    /\ section_key \in StructuredKeys => GovernedRows[pk, section_key] = <<>>

\* what materializing a section leaves: the outcome, the FormSection and FormQuestion
\* rows of the section, the FormSectionData and FormAnswer rows of the submission for
\* it, the sub-entity rows of the submission
Materialization(T, pk, section_key) ==
    [exc |-> T.exc,
     formSections |-> {r \in T.formSections : r.section_key = section_key},
     formQuestions |-> {q \in T.formQuestions : q.section_key = section_key},
     sectionData |-> SectionRows(T.sectionData, pk, section_key),
     answers |-> SectionRows(T.answers, pk, section_key),
     dependents |-> RowsOf(T.dependents, pk),
     businessOwners |-> RowsOf(T.businessOwners, pk),
     vehicles |-> RowsOf(T.vehicles, pk),
     contributions |-> RowsOf(T.contributions, pk)]

\* C25: for every section payload, materializing it through _update_section on a
\* submission that has no rows for that section produces the same FormSection,
\* FormQuestion, FormSectionData, FormAnswer and sub-entity rows as materializing it
\* through _process_section.
C25_MaterializersAgree ==
    [][(last'.op = "_process_section"
        /\ NoRowsFor(last'.pk, last'.request.section_key)) =>
          Materialization(Tables', last'.pk, last'.request.section_key)
              = Materialization(CallUpdateSection(last'.pk, last'.request),
                                last'.pk, last'.request.section_key)]_vars

\* _update_section has written the blob of a vehicle list for a submission that was
\* created without the section, and the submission has no vehicle row
C25_UpdatedWithoutVehicles ==
    /\ last.op = "_update_section" /\ last.exc = "none"
    /\ last.request.section_key = K_incomeExpenses
    /\ ListBrought(last.request, K_incomeExpenses)
    /\ IdentifiedOnly(SectionList(last, K_incomeExpenses)) # <<>>
    /\ ~CreatedWith(last.pk, K_incomeExpenses)
    /\ SectionRows(sectionData, last.pk, K_incomeExpenses) # <<>>
    /\ RowsOf(vehicles, last.pk) = <<>>

\* what the two materializers agree on: the blob they write
C25_BlobsAgree ==
    [][(last'.op = "_process_section"
        /\ NoRowsFor(last'.pk, last'.request.section_key)) =>
          Materialization(Tables', last'.pk, last'.request.section_key).sectionData
              = Materialization(CallUpdateSection(last'.pk, last'.request),
                                last'.pk, last'.request.section_key).sectionData]_vars

----------------------------------------------------------------------------
(* Answers of questions a partial update omits *)

\* the question keys of the FormAnswer rows of a section of a submission
AnsweredKeys(rows, pk, section_key) ==
    {SectionRows(rows, pk, section_key)[i].question_key :
        i \in 1..Len(SectionRows(rows, pk, section_key))}

\* C26: after a partial update of section S with payload P commits, the submission's
\* FormAnswer rows for questions of S are exactly those whose question keys occur in P:
\* an answer for a question that an earlier payload contained but P omits is removed.
C26_AnswersExactlyPayload ==
    [][(SectionsPatched(last') /\ Succeeded(last')) =>
          \A i \in 1..Len(last'.request.sections) :
              AnsweredKeys(answers', last'.pk, last'.request.sections[i][1])
                  = MapKeys(last'.request.sections[i][2].questionsAndAnswers)]_vars

\* a partial update of basicInfo that names only firstName has committed, and the
\* answer to ssn of the create is still there
C26_OmittedAnswerKept ==
    /\ SectionsPatched(last) /\ Succeeded(last)
    /\ MapHas(last.request.sections, K_basicInfo)
    /\ MapKeys(MapGet(last.request.sections, K_basicInfo).questionsAndAnswers) = {K_firstName}
    /\ K_ssn \in AnsweredKeys(answers, last.pk, K_basicInfo)
    /\ \E i \in 1..Len(sectionData) :
          /\ sectionData[i].submission = last.pk /\ sectionData[i].section_key = K_basicInfo
          /\ MapKeys(sectionData[i].data.top) = {K_firstName}

\* the answers of the questions the payload names are there
C26_PayloadAnswered ==
    [][(SectionsPatched(last') /\ Succeeded(last')) =>
          \A i \in 1..Len(last'.request.sections) :
              MapKeys(last'.request.sections[i][2].questionsAndAnswers)
                  \subseteq AnsweredKeys(answers', last'.pk, last'.request.sections[i][1])]_vars

----------------------------------------------------------------------------
(* The stored status *)

\* the request names a status that is none of STATUS_CHOICES
OtherStatus(request) == request.status \notin STATUS_CHOICES \cup {Absent}

\* C27: in every reachable state the stored status of each TaxFormSubmission is one of
\* draft, submitted, processing, completed, rejected; a request carrying any other
\* status value is rejected and leaves the stored status unchanged.
C27_StatusAmongChoices ==
    [][/\ \A pk \in SubmissionIds :
             submissions'[pk].exists => submissions'[pk].status \in STATUS_CHOICES
       /\ \A pk \in Created, r \in PatchRequests :
             (OtherStatus(r[2]) /\ PartialUpdate(r[1], pk, r[2])) =>
                 ~Succeeded(last') /\ submissions'[pk].status = submissions[pk].status
       /\ \A pk \in Created, r \in StatusRequests :
             (OtherStatus(r[2]) /\ UpdateStatus(r[1], pk, r[2])) =>
                 ~Succeeded(last') /\ submissions'[pk].status = submissions[pk].status]_vars

\* partial_update has committed a status that is none of STATUS_CHOICES
C27_OtherStatusStored ==
    /\ last.op = "partial_update" /\ Succeeded(last)
    /\ OtherStatus(last.request)
    /\ submissions[last.pk].status = last.request.status
    /\ submissions[last.pk].status \notin STATUS_CHOICES

\* update_status rejects a status that is none of STATUS_CHOICES, and create, update
\* and update_status store none
C27_UpdateStatusValidates ==
    [][/\ \A pk \in SubmissionIds :
             (/\ last'.op \in {"create", "update", "update_status"}
              /\ submissions'[pk].exists
              /\ (submissions[pk].exists => submissions[pk].status \in STATUS_CHOICES))
                 => submissions'[pk].status \in STATUS_CHOICES
       /\ \A pk \in Created, r \in StatusRequests :
             (OtherStatus(r[2]) /\ UpdateStatus(r[1], pk, r[2])) =>
                 ~Succeeded(last') /\ submissions'[pk].status = submissions[pk].status]_vars

----------------------------------------------------------------------------
(* survey_app: SurveySubmissionCreateView, SurveySubmissionDetailView *)

\* JSON null
Null == "<null>"

\* the tags of the other organizers
TagRentalSubmitted == "rental form submitted for pipeline"
TagFlipSubmitted == "flip form submitted for pipeline"

\* request.data and the query string of a survey request
SurveyRequest(type, multipart, form_type, status, target_user_id) ==
    [type |-> type, multipart |-> multipart, form_type |-> form_type, status |-> status,
     target_user_id |-> target_user_id]

\* _is_admin_user
IsAdminUser(user) == IsStaff(user) \/ profiles[user].is_admin

\* if form_status == 'draft': form_status = 'drafted'
Normalized(form_status) == IF form_status = "draft" THEN "drafted" ELSE form_status

\* the tags of a survey that is submitted, by form type
SurveySubmittedTags(T, owner, form_type) ==
    CASE form_type = "personal" -> AddGhlContactTag(T, owner, TagPersonalSubmitted)
      [] form_type = "business" -> AddGhlContactTag(T, owner, TagBusinessSubmitted)
      [] form_type = "rental" -> AddGhlContactTag(T, owner, TagRentalSubmitted)
      [] form_type = "flip" -> AddGhlContactTag(T, owner, TagFlipSubmitted)
      [] OTHER -> T

\* the response of a survey handler and what it leaves
SurveyDone(rows, calls, op, user, id, code, exc, request) ==
    /\ surveys' = rows
    /\ crmCalls' = calls
    /\ last' = Response(op, user, id, code, exc, request)
    /\ UNCHANGED <<formTypes, formSections, formQuestions, submissions, sectionData, answers,
                   dependents, businessOwners, vehicles, contributions, auditLog, nextLogId,
                   crmUp, txns, profiles, column>>

\* SurveySubmissionCreateView.post
SurveyPost(user, request) ==
    LET form_status == Normalized(IF request.status = Absent THEN "drafted" ELSE request.status)
        admin_target == request.target_user_id # Absent /\ IsAdminUser(user)
        submission_owner == IF admin_target THEN request.target_user_id ELSE user
        T == AddGhlContactTag(Tables, submission_owner, TagAccessed)
    IN  \E id \in SurveyIds :
           /\ ~surveys[id].exists
           /\ id = "s1" \/ surveys["s1"].exists
           /\ IF admin_target /\ submission_owner \notin Accounts
              THEN SurveyDone(surveys, <<>>, "survey post", user, id, 400, "none", request)
              ELSE IF request.form_type \in {Absent, ""}
              THEN SurveyDone(surveys, <<>>, "survey post", user, id, 400, "none", request)
              ELSE IF form_status = Null
              THEN SurveyDone(surveys, <<>>, "survey post", user, id, 500, "none", request)
              ELSE SurveyDone([surveys EXCEPT ![id] =
                                  [exists |-> TRUE, user |-> submission_owner,
                                   form_type |-> request.form_type, status |-> form_status,
                                   data_status |-> request.status]],
                              (IF form_status = "submitted"
                               THEN SurveySubmittedTags(T, submission_owner, request.form_type)
                               ELSE T).crmCalls,
                              "survey post", user, id, 201, "none", request)

\* a variant without the guard against the downgrade
PutStatus_Unguarded(old_status, form_status) == Normalized(form_status)

\* put: the normalization of the status and the guard against downgrading a
\* submitted organizer to draft/drafted
PutStatus(old_status, form_status) ==
    IF old_status = "submitted" /\ Normalized(form_status) \in {"draft", "drafted", Null, ""}
    THEN "submitted"
    ELSE Normalized(form_status)

\* get_object_or_404(SurveySubmission, id=id, form_type=form_type[, user=request.user])
SurveyFound(user, id, form_type) ==
    /\ surveys[id].exists
    /\ surveys[id].form_type = form_type
    /\ IsAdminUser(user) \/ surveys[id].user = user

\* SurveySubmissionDetailView.put
SurveyPut(user, id, request) ==
    LET submission == surveys[id]
        form_type == IF request.form_type = Absent THEN submission.form_type
                     ELSE request.form_type
        asked == IF request.status = Absent THEN submission.status ELSE request.status
        form_status == PutStatus(submission.status, asked)
        is_newly_submitted == submission.status # "submitted" /\ form_status = "submitted"
        data_status == IF request.multipart THEN asked
                       ELSE IF request.status = Absent THEN submission.data_status
                       ELSE request.status
        T == AddGhlContactTag(Tables, submission.user, TagAccessed)
    IN  IF request.type \in {Absent, ""}
        THEN SurveyDone(surveys, <<>>, "survey put", user, id, 400, "none", request)
        ELSE IF ~SurveyFound(user, id, request.type)
        THEN SurveyDone(surveys, <<>>, "survey put", user, id, 404, "none", request)
        ELSE IF form_status = Null \/ form_type = Null
        THEN SurveyDone(surveys, <<>>, "survey put", user, id, 500, "IntegrityError", request)
        ELSE SurveyDone([surveys EXCEPT ![id].form_type = form_type,
                                        ![id].status = form_status,
                                        ![id].data_status = data_status],
                        (IF is_newly_submitted
                         THEN SurveySubmittedTags(T, submission.user, form_type)
                         ELSE T).crmCalls,
                        "survey put", user, id, 200, "none", request)

\* SurveySubmissionDetailView.delete
SurveyDelete(user, id, request) ==
    IF request.type \in {Absent, ""}
    THEN SurveyDone(surveys, <<>>, "survey delete", user, id, 400, "none", request)
    ELSE IF ~SurveyFound(user, id, request.type)
    THEN SurveyDone(surveys, <<>>, "survey delete", user, id, 404, "none", request)
    ELSE SurveyDone([surveys EXCEPT ![id] = NoSurvey], <<>>, "survey delete", user, id, 200,
                    "none", request)

\* the status values the clients send
SurveyStatuses == {Absent, Null, "", "draft", "drafted", "submitted", "archived"}

\* the requests of the survey endpoints
SurveyPosts ==
    {<<"alice", SurveyRequest(Absent, FALSE, form_type, status, Absent)>> :
        form_type \in {"personal", "business", Absent}, status \in SurveyStatuses}
    \cup {<<"root", SurveyRequest(Absent, TRUE, "rental", "submitted", target)>> :
             target \in {"alice", "nobody"}}
SurveyPuts ==
    {<<"alice", SurveyRequest(type, multipart, Absent, status, Absent)>> :
        type \in {"personal", Absent}, multipart \in BOOLEAN, status \in SurveyStatuses}
    \cup {<<"root", SurveyRequest("business", FALSE, "flip", "drafted", Absent)>>,
          <<"alice", SurveyRequest("business", FALSE, Absent, "submitted", Absent)>>}
SurveyDeletes ==
    {<<"alice", SurveyRequest(type, FALSE, Absent, Absent, Absent)>> : type \in {"personal", Absent}}

NextSurvey ==
    \/ \E r \in SurveyPosts : SurveyPost(r[1], r[2])
    \/ \E id \in SurveyIds, r \in SurveyPuts : SurveyPut(r[1], id, r[2])
    \/ \E id \in SurveyIds, r \in SurveyDeletes : SurveyDelete(r[1], id, r[2])

SpecSurvey == Init /\ [][NextSurvey]_vars

----------------------------------------------------------------------------
(* The guard against downgrading a submitted organizer *)

\* the status values that ask for a draft, or for nothing
AsksForDraft == {"draft", "drafted", "", Null, Absent}

\* C28: a PUT on a SurveySubmission whose stored status is 'submitted' never leaves its
\* stored status as draft or drafted: when the request asks for draft, drafted, an
\* empty status or no status, the status stays 'submitted'.
C28_SubmittedNotDowngraded ==
    [][\A id \in SurveyIds :
          (/\ last'.op = "survey put" /\ last'.pk = id
           /\ surveys[id].exists /\ surveys[id].status = "submitted") =>
              /\ surveys'[id].exists
              /\ surveys'[id].status \notin {"draft", "drafted"}
              /\ last'.request.status \in AsksForDraft => surveys'[id].status = "submitted"]_vars

\* a PUT that asks for draft has been stored for a submitted organizer, which is still
\* submitted
C28_DraftAskedOfSubmitted ==
    \E id \in SurveyIds :
        /\ last.op = "survey put" /\ last.pk = id /\ last.code = 200
        /\ last.request.status = "draft"
        /\ surveys[id].status = "submitted"
        /\ surveys[id].data_status = "draft"

----------------------------------------------------------------------------
(* Plaintext of encrypted answers *)

\* the question (section, key) of a submission is classified 'encrypted'
EncryptedQuestion(pk, section_key, question_key) ==
    /\ submissions[pk].exists
    /\ QuestionExists(Tables, submissions[pk].form_type, section_key, question_key)
    /\ QuestionOf(Tables, submissions[pk].form_type, section_key, question_key).field_type
          = "encrypted"

\* a value that shows a text as it was given
Plaintext(value) == value.t = "str" /\ value.s # NoText

\* the entries of a blob hold the answer of an encrypted question as it was given
BlobShowsPlaintext(row) ==
    \/ \E key \in MapKeys(row.data.top) :
          /\ EncryptedQuestion(row.submission, row.section_key, key)
          /\ Plaintext(EntryAnswer(MapGet(row.data.top, key)))
    \/ /\ row.data.hasNested
       /\ \E key \in MapKeys(row.data.nested) :
             /\ EncryptedQuestion(row.submission, row.section_key, key)
             /\ Plaintext(EntryAnswer(MapGet(row.data.nested, key)))

\* the 'changes' of an audit entry hold the answer of an encrypted question as given
ChangesShowPlaintext(entry) ==
    /\ entry.action = "question_updated"
    /\ EncryptedQuestion(entry.submission, entry.changes.section_key, entry.changes.question_key)
    /\ Plaintext(entry.changes.old_value) \/ Plaintext(entry.changes.new_value)

\* C29: the plaintext of an answer to a question classified 'encrypted' is persisted in
\* no row of the submission other than an encrypted slot: it appears unencrypted
\* neither in the FormSectionData blob nor in the 'changes' of a FormAuditLog entry.
C29_PlaintextOnlyEncrypted ==
    /\ \A i \in 1..Len(sectionData) : ~BlobShowsPlaintext(sectionData[i])
    /\ \A i \in 1..Len(auditLog) : ~ChangesShowPlaintext(auditLog[i])

\* update_question has committed a new SSN: the FormAnswer holds it as ciphertext, and
\* the blob and the audit entry hold it as it was given
C29_SsnInBlobAndAudit ==
    /\ last.op = "update_question" /\ Succeeded(last)
    /\ last.request.question_key = K_ssn
    /\ \E i \in 1..Len(answers) :
          /\ answers[i].submission = last.pk /\ answers[i].question_key = K_ssn
          /\ answers[i].slots.encrypted_value = FernetEncrypt(ENCRYPTION_KEY, last.request.answer.s)
          /\ FilledSlots(answers[i].slots) = {"encrypted_value"}
    /\ \E i \in 1..Len(sectionData) :
          sectionData[i].submission = last.pk /\ BlobShowsPlaintext(sectionData[i])
    /\ \E i \in 1..Len(auditLog) :
          /\ auditLog[i].submission = last.pk /\ ChangesShowPlaintext(auditLog[i])
          /\ auditLog[i].changes.new_value = last.request.answer

\* the typed slots of the FormAnswer rows hold no plaintext of an encrypted question
C29_SlotsHoldCiphertext ==
    \A i \in 1..Len(answers) :
        EncryptedQuestion(answers[i].submission, answers[i].section_key, answers[i].question_key)
            => FilledSlots(answers[i].slots) \subseteq {"encrypted_value"}

----------------------------------------------------------------------------
(* form_app: the admin-management endpoints *)

\* a permission the request does not carry
NotSent == [t |-> "absent", s |-> NoText, l |-> NoItems]

\* request.data of the admin-management endpoints; a permission is NotSent or the value sent
AdminRequest(user_id, is_super_admin, can_list_users) ==
    [user_id |-> user_id, is_super_admin |-> is_super_admin, can_list_users |-> can_list_users]

\* is_super_admin(user)
IsSuperAdmin(user) == profiles[user].exists /\ profiles[user].is_super_admin

\* serializers.BooleanField: the booleans and their spellings; [exc, val]
ToBoolean(v) ==
    IF v.t = "bool" THEN [exc |-> "none", val |-> Truthy(v)]
    ELSE IF v.t = "str" /\ Lower(v.s) \in {<<"true">>, <<"1">>, <<"yes">>}
    THEN [exc |-> "none", val |-> TRUE]
    ELSE IF v.t = "str" /\ Lower(v.s) \in {<<"false">>, <<"0">>, <<"no">>}
    THEN [exc |-> "none", val |-> FALSE]
    ELSE [exc |-> "ValidationError", val |-> FALSE]

\* validated_data.get(field, default) of a BooleanField that was sent or not
Validated(v, default) == IF v = NotSent THEN default ELSE ToBoolean(v).val

\* a permission that was sent does not validate
Invalid(v) == v # NotSent /\ ToBoolean(v).exc # "none"

\* the response of an admin-management view and the rows it leaves
AdminDone(rows, op, user, code, request) ==
    /\ profiles' = rows
    /\ last' = Response(op, user, 0, code, "none", request)
    /\ UNCHANGED <<formTypes, formSections, formQuestions, submissions, sectionData, answers,
                   dependents, businessOwners, vehicles, contributions, auditLog, nextLogId,
                   crmUp, crmCalls, txns, surveys, column>>

\* CreateAdminView.post
CreateAdmin(user, request) ==
    IF ~IsSuperAdmin(user) THEN AdminDone(profiles, "create admin", user, 403, request)
    ELSE IF \/ request.user_id \notin Accounts
            \/ Invalid(request.is_super_admin) \/ Invalid(request.can_list_users)
    THEN AdminDone(profiles, "create admin", user, 400, request)
    ELSE AdminDone([profiles EXCEPT ![request.user_id] =
                       [exists |-> TRUE, is_admin |-> TRUE,
                        is_super_admin |-> Validated(request.is_super_admin, FALSE),
                        can_list_users |-> Validated(request.can_list_users, FALSE),
                        is_staff |-> TRUE]],
                   "create admin", user, 201, request)

\* UserProfile.objects.get(user_id=admin_id, is_admin=True) finds a row
AdminFound(admin_id) ==
    admin_id \in Accounts /\ profiles[admin_id].exists /\ profiles[admin_id].is_admin

\* a variant without the check of the caller's own super admin status
OwnStatusRemoved_Unchecked(user, request) == FALSE

\* UpdateAdminPermissionsView.post: the caller is the admin and the request carries an
\* is_super_admin that is not truthy
OwnStatusRemoved(user, request) ==
    /\ request.user_id = user
    /\ request.is_super_admin # NotSent
    /\ ~Truthy(request.is_super_admin)

\* UpdateAdminPermissionsView.post
UpdateAdminPermissions(user, request) ==
    IF ~IsSuperAdmin(user) THEN AdminDone(profiles, "update admin", user, 403, request)
    ELSE IF request.user_id = Absent
    THEN AdminDone(profiles, "update admin", user, 400, request)
    ELSE IF ~AdminFound(request.user_id)
    THEN AdminDone(profiles, "update admin", user, 404, request)
    ELSE IF OwnStatusRemoved(user, request)
    THEN AdminDone(profiles, "update admin", user, 400, request)
    ELSE IF Invalid(request.is_super_admin) \/ Invalid(request.can_list_users)
    THEN AdminDone(profiles, "update admin", user, 400, request)
    ELSE AdminDone([profiles EXCEPT
                       ![request.user_id].is_super_admin = Validated(request.is_super_admin, @),
                       ![request.user_id].can_list_users = Validated(request.can_list_users, @)],
                   "update admin", user, 200, request)

\* DeactivateAdminView.post
DeactivateAdmin(user, request) ==
    IF ~IsSuperAdmin(user) THEN AdminDone(profiles, "deactivate admin", user, 403, request)
    ELSE IF request.user_id = Absent
    THEN AdminDone(profiles, "deactivate admin", user, 400, request)
    ELSE IF ~AdminFound(request.user_id)
    THEN AdminDone(profiles, "deactivate admin", user, 404, request)
    ELSE IF request.user_id = user
    THEN AdminDone(profiles, "deactivate admin", user, 400, request)
    ELSE AdminDone([profiles EXCEPT ![request.user_id].is_admin = ~@,
                                    ![request.user_id].is_staff = ~profiles[request.user_id].is_admin],
                   "deactivate admin", user, 200, request)

\* the values a permission is sent as: not at all, a JSON boolean, a form field
SentBooleans == {NotSent, PyBool(TRUE), PyBool(FALSE), Str(<<"false">>)}

\* the requests of the admin-management endpoints
CreateAdminRequests ==
    {<<user, AdminRequest(user_id, is_super_admin, can_list_users)>> :
        user \in Accounts, user_id \in Accounts \cup {"nobody"},
        is_super_admin \in {NotSent, PyBool(TRUE)}, can_list_users \in {NotSent, PyBool(TRUE)}}
UpdateAdminRequests ==
    {<<user, AdminRequest(user_id, is_super_admin, can_list_users)>> :
        user \in Accounts, user_id \in Accounts \cup {Absent},
        is_super_admin \in SentBooleans, can_list_users \in {NotSent, PyBool(FALSE)}}
DeactivateAdminRequests ==
    {<<user, AdminRequest(user_id, NotSent, NotSent)>> :
        user \in Accounts, user_id \in Accounts \cup {Absent}}

NextAdmin ==
    \/ \E r \in CreateAdminRequests : CreateAdmin(r[1], r[2])
    \/ \E r \in UpdateAdminRequests : UpdateAdminPermissions(r[1], r[2])
    \/ \E r \in DeactivateAdminRequests : DeactivateAdmin(r[1], r[2])

SpecAdmin == Init /\ [][NextAdmin]_vars

----------------------------------------------------------------------------
(* A super admin's own status *)

\* the admin-management requests
AdminOps == {"create admin", "update admin", "deactivate admin"}

\* C30: no request that a super admin issues to the admin-management endpoints (create
\* admin, update admin permissions, deactivate admin) removes that same user's own
\* super-admin status or admin status.
C30_OwnStatusKept ==
    [][\A user \in Accounts :
          (last'.op \in AdminOps /\ last'.user = user /\ IsSuperAdmin(user)) =>
              /\ profiles'[user].exists
              /\ profiles'[user].is_super_admin
              /\ profiles[user].is_admin => profiles'[user].is_admin]_vars

\* a super admin has made themselves an admin anew and is no super admin any more
C30_OwnStatusLostByCreate ==
    /\ last.op = "create admin" /\ last.code = 201
    /\ last.request.user_id = last.user
    /\ last.request.is_super_admin = NotSent
    /\ profiles[last.user].is_admin
    /\ ~profiles[last.user].is_super_admin

\* deactivate admin, and update admin permissions with a JSON boolean, keep the
\* caller's own status
C30_OwnStatusKeptByJson ==
    [][\A user \in Accounts :
          (/\ last'.op \in {"update admin", "deactivate admin"}
           /\ last'.user = user /\ IsSuperAdmin(user)
           /\ last'.request.is_super_admin \in {NotSent, PyBool(TRUE), PyBool(FALSE)}) =>
              /\ profiles'[user].is_super_admin
              /\ profiles[user].is_admin => profiles'[user].is_admin]_vars

====
